---- MODULE Spec2Model ----
(***************************************************************************)
(* vasp_manager: the calculation state machine and retry orchestration.    *)
(*                                                                         *)
(* The state is the on-disk state of every material directory (one stage   *)
(* directory per calculation type, the STOP marker), the batch scheduler   *)
(* (live queue, job id counter), and the results.json file.  A pass is one *)
(* VaspManager(...).run_calculations() by a freshly constructed manager.   *)
(***************************************************************************)
EXTENDS Integers, Sequences, FiniteSets, TLC

VARIABLES
    computer,     \* computing_config.json "computer"
    config,       \* the arguments the user's script gives to VaspManager
    material_names, \* the material directories handed to VaspManager, sorted
    dirs,         \* [Materials -> [Stages -> stage directory record]]
    stopMarker,   \* [Materials -> BOOLEAN], the STOP file of a material
    queue,        \* live scheduler jobs: set of [id, m, s]
    nextJobId,    \* next job id sbatch hands out
    resultsFile,  \* results.json: [Materials -> [Stages -> payload]]
    _results,     \* self._results of a VaspManager instance the user keeps
    resultsExists,\* results.json exists
    trace,        \* calls made by the last operation, in order
    lastOp,       \* the last operation and its return value
    passNo        \* number of run_calculations() completed so far

vars == <<computer, config, material_names, dirs, stopMarker, queue, nextJobId, resultsFile,
          _results, resultsExists, trace, lastOp, passNo>>

----------------------------------------------------------------------------
(* Bounds *)

MaxJobs == 5          \* job ids handed out by the scheduler in a behaviour
MaxPasses == 3        \* passes counted by passNo in the end-to-end scenario
MaxReruns == 2        \* VaspManager(max_reruns=...)
MaxVanish == 2
PoolSteps == 3

(* Program constants *)

NoFile == 0               \* a file that does not exist
EmptyFile == -1           \* a file of size 0
OrigStruct == -2          \* the structure of <material>/POSCAR

Materials == {"m1", "m2"}

proper_order == <<"rlx-coarse", "rlx", "static", "bulkmod", "elastic">>
Stages == {proper_order[i] : i \in 1..Len(proper_order)}

Computers == {"quest", "personal"}

ConfigAlgo == "Normal"       \* calc_config.json "algo"
ConfigSymprec == "1e-05"     \* calc_config.json "symprec"

----------------------------------------------------------------------------
(* What a finished job leaves in its stage directory.  A log is the set of  *)
(* the substrings the program greps for that occur in stdout.txt (out) and  *)
(* stderr.txt (err), plus the numbers it parses: mag (last "mag=" value per *)
(* atom, per mille), dvol (|V_CONTCAR - V_POSCAR| / V_POSCAR, per mille),    *)
(* K/N (last "Total: K/N" line), and whether CONTCAR was written non-empty. *)

NoMag == -1

Log(stdout, out, err, contcar, mag, dvol, K, N) ==
    [stdout |-> stdout, out |-> out, err |-> err, contcar |-> contcar,
     mag |-> mag, dvol |-> dvol, K |-> K, N |-> N]

Outcome(o) ==
    CASE o = "conv"        -> Log(TRUE, {"reached required accuracy"}, {}, TRUE, NoMag, 10, <<>>, <<>>)
      [] o = "conv_drift"  -> Log(TRUE, {"reached required accuracy"}, {}, TRUE, NoMag, 60, <<>>, <<>>)
      [] o = "conv_dv49"   -> Log(TRUE, {"reached required accuracy"}, {}, TRUE, NoMag, 49, <<>>, <<>>)
      [] o = "conv_dv50"   -> Log(TRUE, {"reached required accuracy"}, {}, TRUE, NoMag, 50, <<>>, <<>>)
      [] o = "conv_dv51"   -> Log(TRUE, {"reached required accuracy"}, {}, TRUE, NoMag, 51, <<>>, <<>>)
      [] o = "conv_mag"    -> Log(TRUE, {"reached required accuracy", "mag="}, {}, TRUE, 500, 10, <<>>, <<>>)
      [] o = "unconv"      -> Log(TRUE, {}, {}, TRUE, NoMag, 10, <<>>, <<>>)
      [] o = "unconv_empty" -> Log(TRUE, {}, {}, FALSE, NoMag, 0, <<>>, <<>>)
      [] o = "oom"         -> Log(TRUE, {}, {"oom-kill"}, TRUE, NoMag, 10, <<>>, <<>>)
      [] o = "ssm"         -> Log(TRUE, {"Sub-Space-Matrix"}, {}, TRUE, NoMag, 10, <<>>, <<>>)
      [] o = "bravais"     -> Log(TRUE, {"Inconsistent Bravais"}, {}, FALSE, NoMag, 0, <<>>, <<>>)
      [] o = "fatal"       -> Log(TRUE, {"Fatal error"}, {}, FALSE, NoMag, 0, <<>>, <<>>)
      [] o = "oom_seg"     -> Log(TRUE, {}, {"oom-kill", "Segmentation"}, TRUE, NoMag, 10, <<>>, <<>>)
      [] o = "nostdout"    -> Log(FALSE, {}, {}, FALSE, NoMag, 0, <<>>, <<>>)
      [] o = "scf"         -> Log(TRUE, {"1 F="}, {}, TRUE, NoMag, 0, <<>>, <<>>)
      [] o = "scf_nelm"    -> Log(TRUE, {"1 F=", "NELM"}, {}, TRUE, NoMag, 0, <<>>, <<>>)
      [] o = "noscf"       -> Log(TRUE, {}, {}, FALSE, NoMag, 0, <<>>, <<>>)
      [] o = "el_all"      -> Log(TRUE, {"Total"}, {}, TRUE, NoMag, 0, <<"2">>, <<"2">>)
      [] o = "el_short"    -> Log(TRUE, {"Total"}, {}, TRUE, NoMag, 0, <<"1">>, <<"2">>)
      [] o = "el_over"     -> Log(TRUE, {"Total"}, {}, TRUE, NoMag, 0, <<"3">>, <<"2">>)
      [] o = "el_pad"      -> Log(TRUE, {"Total"}, {}, TRUE, NoMag, 0, <<"0", "2">>, <<"2">>)
      [] o = "el_malformed" -> Log(TRUE, {"Total"}, {}, TRUE, NoMag, 0, <<"1", "O">>, <<"2">>)
      [] o = "el_nototal"  -> Log(TRUE, {}, {}, FALSE, NoMag, 0, <<>>, <<>>)
      [] OTHER             -> Log(FALSE, {}, {}, FALSE, NoMag, 0, <<>>, <<>>)

(* relaxations that converge with a volume change of 4.9 %, 5.0 %, 5.1 % *)
VolumeEdge == {"conv_dv49", "conv_dv50", "conv_dv51"}

(* elastic logs whose last "Total" line reads 3/2, 02/2 and 1O/2 *)
ElasticEdge == {"el_over", "el_pad", "el_malformed"}
ElasticRare == ElasticEdge \cup {"el_nototal"}

(* a relaxation that converges with a magnetic moment of 0.5 per atom *)
SpinEdge == {"conv_mag"}

(* bulkmod jobs that ended during a strain: after the middle strain, and in *)
(* the SCF cycle of the first strain                                        *)
BulkmodEdge == {"bm_partial", "bm_first_noscf"}

(* The outcomes a job of each stage can end with. *)
OutcomesOf(s) ==
    CASE s = "rlx-coarse" -> {"conv", "unconv", "unconv_empty", "oom", "ssm",
                              "oom_seg", "nostdout"}
      [] s = "rlx"        -> {"conv", "conv_drift", "unconv", "fatal", "nostdout"}
                                 \cup VolumeEdge \cup SpinEdge
      [] s = "static"     -> {"scf", "scf_nelm", "noscf", "ssm"}
      [] s = "bulkmod"    -> {"scf", "bm_last_noscf", "bm_last_nelm"} \cup BulkmodEdge
      [] s = "elastic"    -> {"el_all", "el_short", "el_nototal", "fatal"} \cup ElasticEdge

----------------------------------------------------------------------------
(* Stage directories *)

EmptyArchives == [k \in {} |-> 0]

NoDir ==
    [exists |-> FALSE, jobid |-> NoFile, vaspq |-> FALSE, poscar |-> NoFile,
     algo |-> "", symprec |-> "", ispin |-> 0, nodes |-> 0, wall |-> 0,
     out |-> "none", contcar |-> NoFile, archives |-> EmptyArchives]

Ev(w, ev, m, s, n) ==
    [w EXCEPT !.trace = Append(@, [ev |-> ev, m |-> m, s |-> s, n |-> n])]

Raise(w, m, s) ==
    [Ev(w, "raise", m, s, 0) EXCEPT !.raised = TRUE]

NewVic ==
    [algo |-> ConfigAlgo, symprec |-> ConfigSymprec, memcores |-> 0,
     nodes |-> 1, wall |-> 1, use_spin |-> TRUE]

(* A material with a d- or f-block element gets ISPIN = 2 when spin is on. *)
NeedsSpin(m) == m = "m1"

----------------------------------------------------------------------------
(* JobManager *)

(* a JobManager that never sees the jobid marker *)
job_exists_blind(w, m, s) == FALSE

job_exists(w, m, s) ==
    LET d == w.dirs[m][s] IN
    /\ d.exists
    /\ d.jobid # NoFile
    /\ d.jobid # EmptyFile

(* no computer name is taken for a personal computer *)
ContainsPersonal_never(c) == FALSE

ContainsPersonal(c) == c \in {"personal", "my_personal"}

sbatch(w, m, s) ==
    LET id == w.nextId IN
    Ev([w EXCEPT !.dirs[m][s].jobid = id,
                 !.queue = @ \cup {[id |-> id, m |-> m, s |-> s]},
                 !.nextId = id + 1,
                 !.ret = TRUE],
       "submit", m, s, id)

submit_job(w, m, s) ==
    IF job_exists(w, m, s) THEN [w EXCEPT !.ret = TRUE]
    ELSE IF ContainsPersonal(computer) THEN [w EXCEPT !.ret = TRUE]
    ELSE IF ~(w.dirs[m][s].exists /\ w.dirs[m][s].vaspq)
         THEN [w EXCEPT !.ret = FALSE]
    ELSE sbatch(w, m, s)

(* a scheduler query that always lists the job *)
_check_job_complete_never(w, m, s) == FALSE

_check_job_complete(w, m, s) ==
    IF computer = "personal" THEN TRUE
    ELSE ~ \E j \in w.queue : j.id = w.dirs[m][s].jobid

(* cached: the instance attribute _job_complete is already set *)
job_complete(w, m, s, cached) ==
    IF ~cached /\ job_exists(w, m, s) THEN _check_job_complete(w, m, s)
    ELSE FALSE

----------------------------------------------------------------------------
(* BaseCalculationManager *)

(* a manager that never looks for the STOP marker *)
stopped_ignored(w, m) == FALSE

stopped(w, m) == w.stop[m]

(* a stop() that logs but writes no marker *)
stop_no_marker(w, m, s) == Ev(w, "stop", m, s, 0)

stop(w, m, s) == Ev([w EXCEPT !.stop[m] = TRUE], "stop", m, s, 0)

_cancel_previous_job(w, m, s) ==
    LET d == w.dirs[m][s] IN
    IF d.exists /\ d.jobid # NoFile
    THEN Ev([w EXCEPT !.queue = {j \in @ : j.id # d.jobid},
                      !.dirs[m][s].jobid = NoFile],
            "cancel", m, s, d.jobid)
    ELSE w

(* rmtree of the material directory instead of the stage directory *)
_from_scratch_material(w, m, s) ==
    LET w1 == _cancel_previous_job(w, m, s) IN
    IF ~w1.dirs[m][s].exists THEN Raise(w1, m, s)
    ELSE Ev([w1 EXCEPT !.dirs[m][s] = NoDir, !.stop[m] = FALSE], "wipe", m, s, 0)

_from_scratch(w, m, s) ==
    LET w1 == _cancel_previous_job(w, m, s) IN
    IF ~w1.dirs[m][s].exists THEN Raise(w1, m, s)
    ELSE Ev([w1 EXCEPT !.dirs[m][s] = NoDir], "wipe", m, s, 0)

StdoutErrors == {"Sub-Space-Matrix", "Inconsistent Bravais", "num prob", "BRMIX",
                 "SICK JOB", "VERY BAD NEWS", "Fatal error"}
StderrErrors == {"oom-kill", "SETYLM", "Segmentation", "command not found"}

_check_vasp_errors(log, extra_errors) ==
    (log.out \cap (StdoutErrors \cup extra_errors)) \cup (log.err \cap StderrErrors)

_parse_incar_tag(w, m, s, tag) ==
    IF tag = "ALGO" THEN w.dirs[m][s].algo ELSE w.dirs[m][s].symprec

(* a classifier that takes every catalogued remediation as new *)
error_addressed_again(w, m, s, error) ==
    error \in {"Sub-Space-Matrix", "Inconsistent Bravais", "oom-kill"}

(* errors_addressed[error] of one error *)
error_addressed(w, m, s, error) ==
    CASE error = "Sub-Space-Matrix" -> _parse_incar_tag(w, m, s, "ALGO") # "Fast"
      [] error = "Inconsistent Bravais" -> _parse_incar_tag(w, m, s, "SYMPREC") # "1e-08"
      [] error = "oom-kill" -> TRUE
      [] OTHER -> FALSE

MemCores == IF computer = "quest" THEN 28 ELSE 64

_address_vasp_errors(w0, m, s, errors) ==
    LET fixed == {e \in errors : error_addressed(w0, m, s, e)}
        w == Ev(w0, "errors", m, s, IF errors \subseteq fixed THEN 1 ELSE 0) IN
    [w EXCEPT !.vic.algo = IF "Sub-Space-Matrix" \in fixed THEN "Fast" ELSE @,
              !.vic.symprec = IF "Inconsistent Bravais" \in fixed THEN "1e-08" ELSE @,
              !.vic.memcores = IF "oom-kill" \in fixed THEN MemCores ELSE @,
              !.ret = \A e \in errors : e \in fixed]

----------------------------------------------------------------------------
(* VaspInputCreator *)

Readable(f) == f # NoFile /\ f # EmptyFile

num_archives_none(w, m, s) == 0

num_archives(w, m, s) == Cardinality(DOMAIN w.dirs[m][s].archives)

(* poscar_source_path of each manager; c.types is the sorted type list *)
InTypes(c, s) == \E i \in 1..Len(c.types) : c.types[i] = s

poscar_source_path(w, c, m, s) ==
    CASE s = "rlx-coarse" -> OrigStruct
      [] s = "rlx" -> IF InTypes(c, "rlx-coarse")
                      THEN w.dirs[m]["rlx-coarse"].contcar ELSE OrigStruct
      [] s = "elastic" -> w.dirs[m]["rlx"].contcar
      [] OTHER -> IF InTypes(c, "rlx") THEN w.dirs[m]["rlx"].contcar ELSE OrigStruct

(* a creator that always starts from the stage's source structure *)
source_structure_original(w, c, m, s) == poscar_source_path(w, c, m, s)

source_structure(w, c, m, s) ==
    LET n == num_archives(w, m, s)
        a == w.dirs[m][s].archives IN
    IF n > 0
    THEN (IF (n - 1) \in DOMAIN a THEN a[n - 1].contcar ELSE NoFile)
    ELSE poscar_source_path(w, c, m, s)

create(w, c, m, s) ==
    LET src == source_structure(w, c, m, s) IN
    IF ~Readable(src)
    THEN Raise([w EXCEPT !.dirs[m][s].exists = TRUE], m, s)
    ELSE IF m \in w.nopotcar
    THEN Raise([w EXCEPT !.dirs[m][s].exists = TRUE, !.dirs[m][s].poscar = src], m, s)
    ELSE Ev([w EXCEPT !.dirs[m][s].exists = TRUE,
                      !.dirs[m][s].poscar = src,
                      !.dirs[m][s].algo = w.vic.algo,
                      !.dirs[m][s].symprec = w.vic.symprec,
                      !.dirs[m][s].ispin = IF NeedsSpin(m) /\ w.vic.use_spin THEN 2 ELSE 1,
                      !.dirs[m][s].vaspq = TRUE,
                      !.dirs[m][s].nodes = w.vic.nodes,
                      !.dirs[m][s].wall = w.vic.wall],
            "create", m, s, src)

(* a clean-up that leaves the jobid file in the stage directory *)
FilesRemoved_stale(d) ==
    [d EXCEPT !.vaspq = FALSE, !.poscar = NoFile,
              !.algo = "", !.symprec = "", !.ispin = 0, !.nodes = 0, !.wall = 0,
              !.out = "none", !.contcar = NoFile]

(* every regular file of the stage directory is gone; archive_* stay *)
FilesRemoved(d) ==
    [d EXCEPT !.jobid = NoFile, !.vaspq = FALSE, !.poscar = NoFile,
              !.algo = "", !.symprec = "", !.ispin = 0, !.nodes = 0, !.wall = 0,
              !.out = "none", !.contcar = NoFile]

Snapshot(d) == [jobid |-> d.jobid, contcar |-> d.contcar]

(* an archive name that does not count the archives already there *)
archive_name_fixed(w, m, s) == 0

archive_name(w, m, s) == num_archives(w, m, s)

make_archive_and_repopulate(w, c, m, s) ==
    LET d == w.dirs[m][s]
        k == archive_name(w, m, s) IN
    IF ~Readable(d.contcar)
    THEN create([w EXCEPT !.dirs[m][s] = FilesRemoved(d)], c, m, s)
    ELSE IF k \in DOMAIN d.archives
    THEN Raise(w, m, s)
    ELSE create(Ev([w EXCEPT !.dirs[m][s] =
                        [FilesRemoved(d) EXCEPT !.archives = d.archives @@ (k :> Snapshot(d))]],
                   "archive", m, s, k),
                c, m, s)

----------------------------------------------------------------------------
(* The calculation managers: setup_calc *)

HasStdout(d) == d.out # "none" /\ Outcome(d.out).stdout

(* static / bulkmod / elastic: spin is used iff the rlx log reports "mag=" *)
_check_use_spin(w, c, m, s) ==
    IF s = "elastic" \/ InTypes(c, "rlx")
    THEN "mag=" \in Outcome(w.dirs[m]["rlx"].out).out
    ELSE TRUE

SetVic(w, c, m, s, nodes, wall, use_spin) ==
    [w EXCEPT !.vic.nodes = nodes,
              !.vic.wall = wall,
              !.vic.use_spin = CASE s = "rlx-coarse" -> @
                                 [] s = "rlx" -> use_spin
                                 [] OTHER -> _check_use_spin(w, c, m, s)]

(* the stage directory as submit_job finds it: while w.vanish is positive, *)
(* vasp.q is gone again by the time qpath.exists() is evaluated            *)
Vanished(w, m, s) ==
    IF w.vanish > 0 /\ ~w.raised
    THEN [w EXCEPT !.dirs[m][s].vaspq = FALSE, !.vanish = @ - 1]
    ELSE w

RECURSIVE setup_calc(_, _, _, _, _, _, _, _)
setup_calc(w, c, m, s, nodes, wall, make_archive, use_spin) ==
    LET submitted(w3) ==
            IF w3.ret THEN w3 ELSE setup_calc(w3, c, m, s, 1, 1, FALSE, TRUE)
        created(w2) ==
            IF w2.raised \/ ~c.to_submit THEN w2 ELSE submitted(submit_job(Vanished(w2, m, s), m, s))
        configured(w1) ==
            created(IF make_archive THEN make_archive_and_repopulate(w1, c, m, s)
                    ELSE create(w1, c, m, s))
    IN  configured(SetVic(Ev(w, "setup", m, s, 0), c, m, s, nodes, wall, use_spin))

----------------------------------------------------------------------------
(* The calculation managers: check_calc.  w.ret is the returned value.      *)

Ret(w, b) == [w EXCEPT !.ret = b]

_parse_magmom_per_atom(log) == IF "mag=" \in log.out THEN log.mag ELSE NoMag

Abs(x) == IF x < 0 THEN -x ELSE x

rlx_coarse_check_calc(w0, c, m) ==
    LET s == "rlx-coarse"
        w == Ev(w0, "check", m, s, 0)
        d == w.dirs[m][s]
        log == Outcome(d.out)
        vasp_errors == _check_vasp_errors(log, {})
        wa == _address_vasp_errors(w, m, s, vasp_errors)
    IN  IF ~job_complete(w, m, s, FALSE) THEN Ret(w, FALSE)
        ELSE IF ~HasStdout(d)
        THEN Ret(IF c.to_rerun
                 THEN setup_calc(_cancel_previous_job(w, m, s), c, m, s, 1, 1, FALSE, TRUE)
                 ELSE w, FALSE)
        ELSE IF vasp_errors # {}
        THEN Ret(IF wa.ret
                 THEN (IF c.to_rerun THEN setup_calc(wa, c, m, s, 1, 1, TRUE, TRUE) ELSE wa)
                 ELSE stop(wa, m, s), FALSE)
        ELSE IF "reached required accuracy" \notin log.out
        THEN (IF num_archives(w, m, s) >= c.max_reruns - 1 THEN Ret(w, TRUE)
              ELSE Ret(IF c.to_rerun THEN setup_calc(w, c, m, s, 1, 2, TRUE, TRUE) ELSE w,
                       FALSE))
        ELSE Ret(w, TRUE)

rlx_check_calc(w0, c, m) ==
    LET s == "rlx"
        w == Ev(w0, "check", m, s, 0)
        d == w.dirs[m][s]
        log == Outcome(d.out)
        vasp_errors == _check_vasp_errors(log, {})
        wa == _address_vasp_errors(w, m, s, vasp_errors)
        mag == _parse_magmom_per_atom(log)
        use_spin == IF mag = NoMag THEN FALSE ELSE Abs(mag) >= c.cutoff
    IN  IF ~job_complete(w, m, s, FALSE) THEN Ret(w, FALSE)
        ELSE IF ~HasStdout(d)
        THEN Ret(IF c.to_rerun
                 THEN setup_calc(_cancel_previous_job(w, m, s), c, m, s, 1, 1, FALSE, TRUE)
                 ELSE w, FALSE)
        ELSE IF vasp_errors # {}
        THEN Ret(IF wa.ret
                 THEN (IF c.to_rerun THEN setup_calc(wa, c, m, s, 1, 1, TRUE, TRUE) ELSE wa)
                 ELSE stop(wa, m, s), FALSE)
        ELSE IF "reached required accuracy" \notin log.out
        THEN (IF num_archives(w, m, s) >= c.max_reruns - 1 THEN Ret(w, FALSE)
              ELSE Ret(IF c.to_rerun THEN setup_calc(w, c, m, s, 1, 2, TRUE, use_spin) ELSE w,
                       FALSE))
        ELSE IF ~use_spin /\ mag # NoMag /\ c.to_rerun
        THEN Ret(setup_calc(w, c, m, s, 1, 1, TRUE, FALSE), FALSE)
        ELSE Ret(w, TRUE)

(* a volume check that accepts every relaxed cell *)
check_volume_difference_lenient(w, c, m) == Ret(w, TRUE)

(* a volume check that still accepts a change of exactly 5 % *)
check_volume_difference_inclusive(w, c, m) ==
    LET s == "rlx"
        d == w.dirs[m][s]
        log == Outcome(d.out)
    IN  IF ~(Readable(d.poscar) /\ Readable(d.contcar)) THEN Ret(w, FALSE)
        ELSE IF log.dvol > 50
        THEN Ret(IF c.to_rerun THEN setup_calc(w, c, m, s, 1, 1, TRUE, FALSE) ELSE w, FALSE)
        ELSE Ret(w, TRUE)

(* volume_converged; dvol is |dV| / V of POSCAR -> CONTCAR in per mille *)
check_volume_difference(w, c, m) ==
    LET s == "rlx"
        d == w.dirs[m][s]
        log == Outcome(d.out)
        mag == _parse_magmom_per_atom(log)
        use_spin == IF mag = NoMag THEN FALSE ELSE Abs(mag) >= c.cutoff
    IN  IF ~(Readable(d.poscar) /\ Readable(d.contcar)) THEN Ret(w, FALSE)
        ELSE IF log.dvol >= 50
        THEN Ret(IF c.to_rerun THEN setup_calc(w, c, m, s, 1, 1, TRUE, use_spin) ELSE w, FALSE)
        ELSE Ret(w, TRUE)

(* static / bulkmod / elastic rerun: wipe the stage directory, set up anew *)
RerunFromScratch(w, c, m, s, nodes, wall) ==
    LET w1 == _from_scratch(w, m, s) IN
    IF w1.raised THEN w1 ELSE setup_calc(w1, c, m, s, nodes, wall, FALSE, TRUE)

static_check_calc(w0, c, m) ==
    LET s == "static"
        w == Ev(w0, "check", m, s, 0)
        d == w.dirs[m][s]
        log == Outcome(d.out)
        vasp_errors == _check_vasp_errors(log, {"NELM"})
        wa == _address_vasp_errors(w, m, s, vasp_errors)
    IN  IF ~job_complete(w, m, s, FALSE) THEN Ret(w, FALSE)
        ELSE IF ~HasStdout(d)
        THEN Ret(IF c.to_rerun THEN RerunFromScratch(w, c, m, s, 1, 1) ELSE w, FALSE)
        ELSE IF vasp_errors # {}
        THEN Ret(IF wa.ret
                 THEN (IF c.to_rerun THEN RerunFromScratch(wa, c, m, s, 1, 1) ELSE wa)
                 ELSE stop(wa, m, s), FALSE)
        ELSE IF "1 F=" \notin log.out
        THEN Ret(IF c.to_rerun THEN RerunFromScratch(w, c, m, s, 2, 1) ELSE w, FALSE)
        ELSE Ret(w, TRUE)

NStrains == 3
middle == NStrains \div 2

(* strains, in hundredths: 0.79, 0.8, 1.0, 1.2 and 1.21 *)
StrainValues == {79, 80, 100, 120, 121}

strains_uncentered(values) ==
    ~(\E i \in 1..Len(values) : values[i] < 80 \/ values[i] > 120)

(* strains.setter: TRUE when the list is stored, FALSE when ValueError is   *)
(* raised; values[int(len(values) / 2)] counts from 0                       *)
strains(values) ==
    IF \E i \in 1..Len(values) : values[i] < 80 \/ values[i] > 120 THEN FALSE
    ELSE IF values[(Len(values) \div 2) + 1] # 100 THEN FALSE
    ELSE TRUE

(* f"strain_{strain_index}" *)
strain_name(strain_index) == <<"strain_", strain_index>>

(* _make_bulkmod_strains: the sub-directories of the stage directory after  *)
(* the loop has run from the i-th strain (counted from 0) to the last       *)
RECURSIVE _make_bulkmod_strains(_, _, _)
_make_bulkmod_strains(calc_dir, values, i) ==
    IF i >= Len(values) THEN calc_dir
    ELSE LET strain_index == i - (Len(values) \div 2)
             strain_dir ==
                 [POSCAR |-> [kind |-> "copy", of |-> "POSCAR", scale |-> values[i + 1]],
                  POTCAR |-> [kind |-> "symlink", of |-> "../POTCAR", scale |-> 0],
                  INCAR  |-> [kind |-> "symlink", of |-> "../INCAR", scale |-> 0]]
         IN  _make_bulkmod_strains(
                 [n \in DOMAIN calc_dir \cup {strain_name(strain_index)} |->
                     IF n = strain_name(strain_index) THEN strain_dir ELSE calc_dir[n]],
                 values, i + 1)

(* the log of the i-th strain sub-directory (i = 1..NStrains) *)
StrainLog(o, i) ==
    CASE o = "bm_partial" -> IF i <= middle + 1 THEN Outcome("scf") ELSE Outcome("nostdout")
      [] o = "bm_first_noscf" -> IF i = 1 THEN Outcome("noscf") ELSE Outcome("nostdout")
      [] o = "bm_last_noscf" -> IF i < NStrains THEN Outcome("scf") ELSE Outcome("noscf")
      [] o = "bm_last_nelm" -> IF i < NStrains THEN Outcome("scf") ELSE Outcome("scf_nelm")
      [] OTHER -> Outcome(o)

RECURSIVE bulkmod_check_strains(_, _, _, _)
bulkmod_check_strains(w, c, m, i) ==
    LET s == "bulkmod"
        d == w.dirs[m][s]
        log == StrainLog(d.out, i)
        vasp_errors == _check_vasp_errors(log, {"NELM"})
        wa == _address_vasp_errors(w, m, s, vasp_errors)
    IN  IF i > NStrains THEN Ret(w, TRUE)
        ELSE IF d.out = "none" \/ ~log.stdout THEN Ret(w, FALSE)
        ELSE IF vasp_errors # {}
        THEN Ret(IF wa.ret
                 THEN (IF c.to_rerun THEN RerunFromScratch(wa, c, m, s, 1, 1) ELSE wa)
                 ELSE stop(wa, m, s), FALSE)
        ELSE IF "1 F=" \notin log.out
        THEN Ret(IF c.to_rerun THEN RerunFromScratch(w, c, m, s, 2, 1) ELSE w, FALSE)
        ELSE bulkmod_check_strains(w, c, m, i + 1)

(* a check that looks at the last strain only *)
bulkmod_check_calc_last(w0, c, m) ==
    LET w == Ev(w0, "check", m, "bulkmod", 0) IN
    IF ~job_complete(w, m, "bulkmod", FALSE) THEN Ret(w, FALSE)
    ELSE bulkmod_check_strains(w, c, m, NStrains)

bulkmod_check_calc(w0, c, m) ==
    LET w == Ev(w0, "check", m, "bulkmod", 0) IN
    IF ~job_complete(w, m, "bulkmod", FALSE) THEN Ret(w, FALSE)
    ELSE bulkmod_check_strains(w, c, m, 1)

(* int(): the value of a token of decimal digits *)
DigitValue ==
    [ch \in {"0", "1", "2", "3", "4", "5", "6", "7", "8", "9"} |->
        CASE ch = "0" -> 0 [] ch = "1" -> 1 [] ch = "2" -> 2 [] ch = "3" -> 3
          [] ch = "4" -> 4 [] ch = "5" -> 5 [] ch = "6" -> 6 [] ch = "7" -> 7
          [] ch = "8" -> 8 [] ch = "9" -> 9]

IsInt(tok) == Len(tok) > 0 /\ \A i \in 1..Len(tok) : tok[i] \in DOMAIN DigitValue

RECURSIVE int(_)
int(tok) ==
    IF Len(tok) = 0 THEN 0
    ELSE 10 * int(SubSeq(tok, 1, Len(tok) - 1)) + DigitValue[tok[Len(tok)]]

(* a parse that takes a token that is no number for 0 *)
parse_deformations_silent(log) ==
    [ok |-> TRUE,
     finished |-> IF IsInt(log.K) THEN int(log.K) ELSE 0,
     total |-> IF IsInt(log.K) /\ IsInt(log.N) THEN int(log.N) ELSE 0]

(* finished_deformations and total_deformations of the last "Total" line;  *)
(* ok is false where int() raises ValueError                                *)
parse_deformations(log) ==
    IF IsInt(log.K) /\ IsInt(log.N)
    THEN [ok |-> TRUE, finished |-> int(log.K), total |-> int(log.N)]
    ELSE [ok |-> FALSE, finished |-> 0, total |-> 0]

(* a comparison that only looks for missing deformations *)
deformations_complete_atleast(p) == p.finished >= p.total

(* finished_deformations == total_deformations *)
deformations_complete(p) == p.finished = p.total

elastic_check_calc(w0, c, m) ==
    LET s == "elastic"
        w == Ev(w0, "check", m, s, 0)
        d == w.dirs[m][s]
        log == Outcome(d.out)
        vasp_errors == _check_vasp_errors(log, {"NELM"})
        wa == _address_vasp_errors(w, m, s, vasp_errors)
    IN  IF ~job_complete(w, m, s, FALSE) THEN Ret(w, FALSE)
        ELSE IF ~HasStdout(d)
        THEN Ret(IF c.to_rerun THEN RerunFromScratch(w, c, m, s, 1, 1) ELSE w, FALSE)
        ELSE IF vasp_errors # {}
        THEN Ret(IF wa.ret
                 THEN (IF c.to_rerun THEN RerunFromScratch(wa, c, m, s, 1, 1) ELSE wa)
                 ELSE stop(wa, m, s), FALSE)
        ELSE IF "Total" \notin log.out
        THEN Ret(IF c.to_rerun THEN RerunFromScratch(w, c, m, s, 1, 1) ELSE w, FALSE)
        ELSE IF ~parse_deformations(log).ok THEN Raise(w, m, s)
        ELSE IF ~deformations_complete(parse_deformations(log))
        THEN Ret(IF c.to_rerun THEN RerunFromScratch(w, c, m, s, 1, 2) ELSE w, FALSE)
        ELSE Ret(w, TRUE)

check_calc(w, c, m, s) ==
    CASE s = "rlx-coarse" -> rlx_coarse_check_calc(w, c, m)
      [] s = "rlx" -> rlx_check_calc(w, c, m)
      [] s = "static" -> static_check_calc(w, c, m)
      [] s = "bulkmod" -> bulkmod_check_calc(w, c, m)
      [] s = "elastic" -> elastic_check_calc(w, c, m)

(* a manager that reruns whatever to_rerun says *)
is_done_rerunning(w, c, m, s) ==
    LET checked(w1) ==
            IF s = "rlx" /\ w1.ret /\ ~w1.raised
            THEN check_volume_difference(w1, [c EXCEPT !.to_rerun = TRUE], m)
            ELSE w1
    IN  checked(check_calc(w, [c EXCEPT !.to_rerun = TRUE], m, s))

(* is_done of a fresh manager: check_calc, for rlx followed by the volume check *)
is_done(w, c, m, s) ==
    LET checked(w1) ==
            IF s = "rlx" /\ w1.ret /\ ~w1.raised THEN check_volume_difference(w1, c, m)
            ELSE w1
    IN  checked(check_calc(w, c, m, s))

----------------------------------------------------------------------------
(* results: the payload a manager reports *)

Payload(tag, job) == [tag |-> tag, job |-> job]
Absent == Payload("absent", 0)

(* the STOP marker looked at before is_done *)
results_stopped_first(w, m, s, done) ==
    IF stopped(w, m) THEN Payload("STOPPED", 0)
    ELSE IF ~done
    THEN (IF s = "rlx-coarse" THEN Payload("not finished", 0) ELSE Payload("null", 0))
    ELSE IF s = "rlx-coarse" THEN Payload("done", 0)
    ELSE Payload(s, w.dirs[m][s].jobid)

results(w, m, s, done) ==
    IF ~done
    THEN (IF stopped(w, m) THEN Payload("STOPPED", 0)
          ELSE IF s = "rlx-coarse" THEN Payload("not finished", 0)
          ELSE Payload("null", 0))
    ELSE IF s = "rlx-coarse" THEN Payload("done", 0)
    ELSE Payload(s, w.dirs[m][s].jobid)

----------------------------------------------------------------------------
(* VaspManager *)

Range(seq) == {seq[i] : i \in 1..Len(seq)}

(* a setter that keeps the caller's order *)
calculation_types_unsorted(values) == values

(* calculation_types.setter: the supported types, in proper_order *)
calculation_types(values) ==
    SelectSeq(proper_order, LAMBDA t : t \in Range(values))

_check_calc_by_result(store, m, s) ==
    [is_done |-> store[m][s].tag \notin {"null", "STOPPED", "not finished"},
     is_stopped |-> store[m][s].tag = "STOPPED"]

SetResult(w, s, payload) == [w EXCEPT !.matres[s] = payload]

(* an orchestrator that goes on to is_done after the setup_calc of rlx *)
BreaksAfterSetup_coarse(s) == s = "rlx-coarse"

(* an orchestrator that goes on after every setup_calc *)
BreaksAfterSetup_never(s) == FALSE

BreaksAfterSetup(s) == s \in {"rlx-coarse", "rlx"}

(* an orchestrator that goes on from an rlx found not done *)
BreaksWhenNotDone_coarse(s) == s \in {"rlx-coarse", "elastic"}

(* an orchestrator that ends the material's loop at any stage not done *)
BreaksWhenNotDone_any(s) == TRUE

BreaksWhenNotDone(s) == s \in {"rlx-coarse", "rlx", "elastic"}

(* an orchestrator that does not consult the results store *)
SkipsDone_never(w, c, m, s) == FALSE

SkipsDone(w, c, m, s) ==
    /\ w.store[m][s] # Absent
    /\ _check_calc_by_result(w.store, m, s).is_done
    /\ s \notin c.from_scratch

(* the loop body of _manage_calculations for the i-th to the n-th manager *)
RECURSIVE manage_range(_, _, _, _, _)
manage_range(w0, c, m, i, n) ==
    IF i > n \/ w0.raised THEN w0
    ELSE
    LET s == c.types[i]
        w == [Ev(w0, "visit", m, s, 0) EXCEPT !.vic = NewVic]
        had_job == job_exists(w, m, s)
        (* after "if not calc_manager.is_done" *)
        judged(w2) ==
            IF w2.raised \/ (~w2.ret /\ BreaksWhenNotDone(s)) THEN w2
            ELSE manage_range(SetResult(Ev(w2, IF w2.ret THEN "done" ELSE "notdone", m, s, 0),
                                        s, results(w2, m, s, w2.ret)),
                              c, m, i + 1, n)
        (* after "if not calc_manager.job_exists" *)
        ready(w1) ==
            IF w1.raised \/ (~had_job /\ BreaksAfterSetup(s)) THEN w1
            ELSE judged(is_done(w1, c, m, s))
    IN  IF SkipsDone(w, c, m, s) THEN manage_range(Ev(w, "skip", m, s, 0), c, m, i + 1, n)
        ELSE IF stopped(w, m) THEN SetResult(w, s, Payload("STOPPED", 0))
        ELSE ready(IF had_job THEN w
                   ELSE setup_calc(Ev(w, "orch_setup", m, s, 0), c, m, s, 1, 1, FALSE, TRUE))

(* the loop of _manage_calculations from the i-th manager on *)
manage_from(w0, c, m, i) == manage_range(w0, c, m, i, Len(c.types))

NoResults == [s \in Stages |-> Absent]

(* a stopped material ends the run with an exception *)
_manage_calculations_abort(w, c, m) ==
    LET aborted(w1) == IF w1.stop[m] THEN Raise(w1, m, "") ELSE w1
    IN  aborted(manage_from([w EXCEPT !.matres = NoResults], c, m, 1))

_manage_calculations(w, c, m) ==
    manage_from([w EXCEPT !.matres = NoResults], c, m, 1)

(* self.results[material_name].update(material_result) *)
UpdateStore(w, m) ==
    IF w.raised THEN w
    ELSE [w EXCEPT !.store[m] = [s \in Stages |->
                                    IF w.matres[s] # Absent THEN w.matres[s] ELSE @[s]]]

RECURSIVE run_materials(_, _, _)
run_materials(w, c, k) ==
    IF k > Len(material_names) \/ w.raised THEN w
    ELSE run_materials(UpdateStore(_manage_calculations(w, c, material_names[k]),
                                   material_names[k]),
                       c, k + 1)

(* __init__ of the managers: from_scratch wipes, elastic needs rlx *)
RECURSIVE init_managers(_, _, _, _)
init_managers(w, c, k, i) ==
    IF k > Len(material_names) \/ w.raised THEN w
    ELSE IF i > Len(c.types) THEN init_managers(w, c, k + 1, 1)
    ELSE LET m == material_names[k]
             s == c.types[i] IN
         IF s = "elastic" /\ ~InTypes(c, "rlx") THEN Raise(w, m, s)
         ELSE init_managers(IF s \in c.from_scratch THEN _from_scratch(w, m, s) ELSE w,
                            c, k, i + 1)

(* summary(as_string=False): file is the results.json just read, mem the    *)
(* self.results of the instance; one event per (calc_type, material)        *)

(* _check_calc_by_result reads self.results *)
SummaryLookup(file, mem) == mem

summary_class(file, mem, m, s) ==
    IF file[m][s] = Absent THEN "unfinished"
    ELSE IF SummaryLookup(file, mem)[m][s] = Absent THEN "KeyError"
    ELSE IF _check_calc_by_result(SummaryLookup(file, mem), m, s).is_done THEN "finished"
    ELSE IF _check_calc_by_result(SummaryLookup(file, mem), m, s).is_stopped THEN "stopped"
    ELSE "unfinished"

summary(file, exists, mem, types) ==
    LET cells == [i \in 1..Len(types) |->
                     [ev |-> summary_class(file, mem, material_names[1], types[i]),
                      m |-> material_names[1], s |-> types[i], n |-> 0]]
        failed == ~exists \/ \E i \in 1..Len(cells) : cells[i].ev = "KeyError"
    IN  [raised |-> failed,
         trace |-> IF failed THEN <<[ev |-> "raise", m |-> "", s |-> "", n |-> 0]>>
                   ELSE cells]

(* summary(as_string=False), the dict: for one calc_type, the lists after   *)
(* the material m of the file, of class cls, has been looked at             *)
summary_add_split(acc, cls, m) ==
    CASE cls = "KeyError" -> [acc EXCEPT !.raised = TRUE]
      [] cls = "finished" -> [acc EXCEPT !.n_finished = @ + 1,
                                         !.finished = Append(@, m)]
      [] cls = "stopped" -> [acc EXCEPT !.stopped = Append(@, m)]
      [] OTHER -> [acc EXCEPT !.unfinished = Append(@, m)]

summary_add(acc, cls, m) ==
    CASE cls = "KeyError" -> [acc EXCEPT !.raised = TRUE]
      [] cls = "finished" -> [acc EXCEPT !.n_finished = @ + 1,
                                         !.finished = Append(@, m)]
      [] cls = "stopped" -> [acc EXCEPT !.stopped = Append(@, m),
                                        !.unfinished = Append(@, m)]
      [] OTHER -> [acc EXCEPT !.unfinished = Append(@, m)]

(* for material, mat_results in results.items() *)
RECURSIVE summary_lists(_, _, _, _, _, _)
summary_lists(file, mem, s, mats, k, acc) ==
    IF k > Len(mats) \/ acc.raised THEN acc
    ELSE summary_lists(file, mem, s, mats, k + 1,
                       summary_add(acc, summary_class(file, mem, mats[k], s),
                                   mats[k]))

EmptyLists ==
    [n_finished |-> 0, finished |-> <<>>, unfinished |-> <<>>, stopped |-> <<>>,
     raised |-> FALSE]

(* mats: the keys of the results file, in its order *)
summary_dict(file, exists, mem, types, mats) ==
    LET by == [s \in Range(types) |->
                  summary_lists(file, mem, s, mats, 1, EmptyLists)]
    IN  [raised |-> ~exists \/ \E s \in Range(types) : by[s].raised,
         n_total |-> Len(mats),
         by |-> by]

(* pool.map(self._manage_calculations, material_names, 1): every worker    *)
(* process has its own copy of the manager and of material_results, and all *)
(* of them share the file system and the scheduler.                         *)

(* workers writing into one material_results *)
WorkerView_shared(w, mres, m) == w

WorkerView(w, mres, m) == [w EXCEPT !.matres = mres[m]]

(* the worker's loop goes on to the next manager after stage s *)
Continues(w, m, s) ==
    /\ ~w.raised
    /\ Len(w.trace) > 0
    /\ w.trace[Len(w.trace)].ev \in {"skip", "done", "notdone"}
    /\ w.trace[Len(w.trace)].m = m
    /\ w.trace[Len(w.trace)].s = s

(* the workers take their steps in the order sched: one step is the loop   *)
(* body of _manage_calculations for the worker's next manager               *)
RECURSIVE pool_map(_, _, _, _, _, _, _)
pool_map(w, c, sched, k, pos, mres, failed) ==
    IF k > Len(sched) THEN [w |-> [w EXCEPT !.raised = failed], mres |-> mres]
    ELSE LET m == sched[k]
             i == pos[m]
             after(w1) ==
                 pool_map([w1 EXCEPT !.raised = FALSE], c, sched, k + 1,
                          [pos EXCEPT ![m] = IF Continues(w1, m, c.types[i])
                                             THEN i + 1 ELSE Len(c.types) + 1],
                          [mres EXCEPT ![m] = w1.matres],
                          failed \/ w1.raised)
         IN  IF i > Len(c.types) THEN pool_map(w, c, sched, k + 1, pos, mres, failed)
             ELSE after(manage_range(WorkerView(w, mres, m), c, m, i, i))

(* the parent: self.results[material_name].update(material_result) *)
RECURSIVE pool_merge(_, _, _)
pool_merge(w, mres, k) ==
    IF k > Len(material_names) \/ w.raised THEN w
    ELSE pool_merge(UpdateStore([w EXCEPT !.matres = mres[material_names[k]]],
                                material_names[k]),
                    mres, k + 1)

(* sched, then every worker runs to its end *)
RECURSIVE Drained(_, _)
Drained(sched, n) ==
    IF n = 0 THEN sched ELSE Drained(sched \o material_names, n - 1)

run_pool(w, c, sched) ==
    LET merged(r) == pool_merge(r.w, r.mres, 1)
    IN  merged(pool_map(w, c, Drained(sched, Len(c.types)), 1,
                        [m \in Materials |-> 1],
                        [m \in Materials |-> NoResults], FALSE))

----------------------------------------------------------------------------
(* The state machine *)

Cfg(types, to_rerun, to_submit, cutoff, from_scratch) ==
    [types |-> types, to_rerun |-> to_rerun, to_submit |-> to_submit,
     max_reruns |-> MaxReruns, cutoff |-> cutoff, from_scratch |-> from_scratch]

Op(op, m, s, ret, twice, before) ==
    [op |-> op, m |-> m, s |-> s, ret |-> ret, twice |-> twice, before |-> before,
     val |-> Absent, arg |-> {}]

AllTypes == proper_order
Reversed == <<"elastic", "bulkmod", "static", "rlx", "rlx-coarse">>

(* the arguments the user's script gives to VaspManager *)
Default == Cfg(AllTypes, TRUE, TRUE, 0, {})
NoSubmit == Cfg(AllTypes, TRUE, FALSE, 0, {})

Configs ==
    { Default,
      Cfg(Reversed, TRUE, TRUE, 0, {}),
      Cfg(AllTypes, FALSE, TRUE, 0, {}),
      NoSubmit,
      Cfg(<<"elastic", "rlx", "static">>, TRUE, TRUE, 0, {}) }

InitWith(computers, configs) ==
    /\ computer \in computers
    /\ config \in configs
    /\ material_names = <<"m1">>
    /\ dirs = [m \in Materials |-> [s \in Stages |-> NoDir]]
    /\ stopMarker = [m \in Materials |-> FALSE]
    /\ queue = {}
    /\ nextJobId = 1
    /\ resultsFile = [m \in Materials |-> NoResults]
    /\ resultsExists = FALSE
    /\ trace = <<>>
    /\ lastOp = Op("init", "", "", FALSE, FALSE, 0)
    /\ passNo = 0
    /\ _results = [m \in Materials |-> NoResults]

Init == InitWith(Computers, Configs)

(* results.setter: the file, with an empty entry for every new material *)
LoadResults ==
    IF resultsExists THEN resultsFile ELSE [m \in Materials |-> NoResults]

World ==
    [dirs |-> dirs, stop |-> stopMarker, queue |-> queue, nextId |-> nextJobId,
     trace |-> <<>>, raised |-> FALSE, ret |-> FALSE, vic |-> NewVic,
     matres |-> NoResults, store |-> LoadResults, vanish |-> 0,
     nopotcar |-> {}]

\* a freshly constructed VaspManager with arguments craw runs run_calculations
\* on the file system w
run_calculations_on(w, craw) ==
    LET c == [craw EXCEPT !.types = calculation_types(craw.types)] IN
    run_materials(IF Range(craw.types) \subseteq Stages
                  THEN init_managers(w, c, 1, 1)
                  ELSE Raise(w, "", ""),
                  c, 1)

run_calculations(craw) == run_calculations_on(World, craw)

PassBody ==
    \E w \in {run_calculations(config)} :
        /\ w.nextId <= MaxJobs + 1
        /\ dirs' = w.dirs
        /\ stopMarker' = w.stop
        /\ queue' = w.queue
        /\ nextJobId' = w.nextId
        /\ resultsFile' = IF w.raised THEN resultsFile ELSE w.store
        /\ resultsExists' = (resultsExists \/ ~w.raised)
        /\ trace' = w.trace
        /\ lastOp' = Op("pass", "", "", ~w.raised, FALSE, 0)
        /\ UNCHANGED <<_results, computer, config, material_names>>

(* the user's script runs once more *)
Pass == PassBody /\ UNCHANGED passNo

(* the same, with the runs counted *)
NumberedPass ==
    /\ passNo < MaxPasses
    /\ PassBody
    /\ passNo' = passNo + 1

(* JobManager(calc_dir).submit_job() called directly *)
SubmitJob(m, s) ==
    /\ \E w \in {submit_job(World, m, s)} :
        /\ w.nextId <= MaxJobs + 1
        /\ dirs' = w.dirs
        /\ queue' = w.queue
        /\ nextJobId' = w.nextId
        /\ trace' = w.trace
        /\ lastOp' = Op("submit_job", m, s, w.ret,
                        lastOp.op = "submit_job" /\ lastOp.m = m /\ lastOp.s = s,
                        dirs[m][s].jobid)
    /\ UNCHANGED <<_results, computer, config, material_names, stopMarker, resultsFile,
                   resultsExists, passNo>>

(* the scheduler: a live job ends and leaves the queue *)
JobFinishes(j, o) ==
    LET log == Outcome(o)
        d == dirs[j.m][j.s] IN
    /\ j \in queue
    /\ o \in OutcomesOf(j.s)
    /\ ("mag=" \in log.out) => (d.ispin = 2)
    /\ queue' = queue \ {j}
    /\ dirs' = [dirs EXCEPT ![j.m][j.s].out = o,
                            ![j.m][j.s].contcar =
                                IF o = "nostdout" THEN @
                                ELSE IF log.contcar THEN j.id ELSE EmptyFile]
    /\ trace' = <<>>
    /\ lastOp' = Op("job_finishes", j.m, j.s, TRUE, FALSE, 0)
    /\ UNCHANGED <<_results, computer, config, material_names, stopMarker, nextJobId,
                   resultsFile, resultsExists, passNo>>

(* the user: touch STOP in a material directory *)
ExternalStop(m) ==
    /\ ~stopMarker[m]
    /\ stopMarker' = [stopMarker EXCEPT ![m] = TRUE]
    /\ trace' = <<>>
    /\ lastOp' = Op("external_stop", m, "", TRUE, FALSE, 0)
    /\ UNCHANGED <<_results, computer, config, material_names, dirs, queue, nextJobId,
                   resultsFile, resultsExists, passNo>>

(* the volume changes next to the threshold are left to SpecVolume, the    *)
(* unusual "Total" lines to SpecElastic                                     *)
AllOutcomes ==
    UNION {OutcomesOf(s) : s \in Stages}
        \ (VolumeEdge \cup ElasticRare \cup BulkmodEdge \cup SpinEdge)

Next ==
    \/ Pass
    \/ \E j \in queue, o \in AllOutcomes : JobFinishes(j, o)
    \/ \E m \in Range(material_names) : ExternalStop(m)

Spec == Init /\ [][Next]_vars

(* The user's script and direct submit_job() calls on stage directories. *)
InitJob == InitWith(Computers, {NoSubmit})

Successes == {"conv", "scf", "el_all"}

NextJob ==
    \/ Pass
    \/ \E j \in queue, o \in Successes : JobFinishes(j, o)
    \/ \E m \in Range(material_names), s \in Stages : SubmitJob(m, s)

SpecJob == InitJob /\ [][NextJob]_vars

(* Direct submit_job() calls on stage directories found in any state: absent, *)
(* with or without the scheduler script, with no or an empty jobid marker.   *)
FoundDirs ==
    {NoDir} \cup
    {[NoDir EXCEPT !.exists = TRUE, !.poscar = OrigStruct, !.vaspq = v, !.jobid = j] :
        v \in BOOLEAN, j \in {NoFile, EmptyFile}}

SubmitStages == {"rlx-coarse", "rlx"}

InitFound(computers) ==
    /\ computer \in computers
    /\ config = NoSubmit
    /\ material_names = <<"m1">>
    /\ \E f \in [SubmitStages -> FoundDirs] :
          dirs = [m \in Materials |-> [s \in Stages |->
                    IF m = "m1" /\ s \in SubmitStages THEN f[s] ELSE NoDir]]
    /\ stopMarker = [m \in Materials |-> FALSE]
    /\ queue = {}
    /\ nextJobId = 1
    /\ resultsFile = [m \in Materials |-> NoResults]
    /\ resultsExists = FALSE
    /\ trace = <<>>
    /\ lastOp = Op("init", "", "", FALSE, FALSE, 0)
    /\ passNo = 0
    /\ _results = [m \in Materials |-> NoResults]

InitSubmit == InitFound(Computers)

NextSubmit ==
    \/ \E m \in Range(material_names), s \in SubmitStages : SubmitJob(m, s)
    \/ \E j \in queue, o \in Successes : JobFinishes(j, o)

SpecSubmit == InitSubmit /\ [][NextSubmit]_vars

(* job_complete read twice on one newly constructed JobManager(calc_dir):  *)
(* lastOp.ret is the first value, lastOp.twice the second one              *)
JobComplete(m, s) ==
    /\ lastOp' = Op("job_complete", m, s,
                    job_complete(World, m, s, FALSE),
                    job_complete(World, m, s, TRUE),
                    dirs[m][s].jobid)
    /\ trace' = <<>>
    /\ UNCHANGED <<_results, computer, config, material_names, dirs, stopMarker, queue,
                   nextJobId, resultsFile, resultsExists, passNo>>

NextPoll ==
    \/ \E m \in Range(material_names), s \in SubmitStages : SubmitJob(m, s)
    \/ \E j \in queue, o \in Successes : JobFinishes(j, o)
    \/ \E m \in Range(material_names), s \in SubmitStages : JobComplete(m, s)

SpecPoll == InitSubmit /\ [][NextPoll]_vars

(* the same calls under every "computer" of computing_config.json, one of   *)
(* them a name that holds "personal" and is not "personal"                  *)
InitComputer == InitFound(Computers \cup {"my_personal"})

SpecComputer == InitComputer /\ [][NextPoll]_vars

(* manager.setup_calc() called directly on a stage, in a directory where    *)
(* vasp.q is removed k times right after it was written                     *)
SetupCalc(m, s, k) ==
    /\ \E w \in {setup_calc([World EXCEPT !.vanish = k],
                             [config EXCEPT !.types = calculation_types(config.types)],
                             m, s, 1, 1, FALSE, TRUE)} :
        /\ w.nextId <= MaxJobs + 1
        /\ dirs' = w.dirs
        /\ queue' = w.queue
        /\ nextJobId' = w.nextId
        /\ trace' = w.trace
        /\ lastOp' = Op("setup_calc", m, s, ~w.raised, FALSE, k)
    /\ UNCHANGED <<_results, computer, config, material_names, stopMarker, resultsFile,
                   resultsExists, passNo>>

InitSetup == InitWith(Computers, {Default})

NextSetup ==
    \/ \E m \in Range(material_names), s \in SubmitStages, k \in 0..MaxVanish :
          SetupCalc(m, s, k)
    \/ \E j \in queue, o \in AllOutcomes : JobFinishes(j, o)

SpecSetup == InitSetup /\ [][NextSetup]_vars

(* manager.results read on a newly constructed manager of stage s: is_done *)
(* is evaluated first, with everything check_calc does to the directory    *)
ReadResults(m, s) ==
    /\ \E w \in {is_done(World, [config EXCEPT !.types = calculation_types(config.types)],
                          m, s)} :
        /\ w.nextId <= MaxJobs + 1
        /\ dirs' = w.dirs
        /\ stopMarker' = w.stop
        /\ queue' = w.queue
        /\ nextJobId' = w.nextId
        /\ trace' = w.trace
        /\ lastOp' = IF w.raised THEN Op("results_raised", m, s, FALSE, FALSE, 0)
                      ELSE [Op("results", m, s, w.ret, FALSE, 0)
                               EXCEPT !.val = results(w, m, s, w.ret)]
    /\ UNCHANGED <<_results, computer, config, material_names, resultsFile, resultsExists,
                   passNo>>

InitResults == InitWith({"quest"}, {Default})

NextResults ==
    \/ Pass
    \/ \E j \in queue, o \in AllOutcomes : JobFinishes(j, o)
    \/ \E m \in Range(material_names) : ExternalStop(m)
    \/ \E m \in Range(material_names), s \in Stages : ReadResults(m, s)

SpecResults == InitResults /\ [][NextResults]_vars

(* Every operation that touches a material directory, with and without the *)
(* from_scratch argument: runs of the script, direct setup_calc() and       *)
(* results reads, the scheduler and the user's STOP.                        *)
ScratchCoarse == Cfg(<<"rlx-coarse", "rlx">>, TRUE, TRUE, 0, {"rlx-coarse"})

InitStop ==
    InitWith({"quest"}, {ScratchCoarse})

NextStop ==
    \/ Pass
    \/ \E j \in queue, o \in AllOutcomes : JobFinishes(j, o)
    \/ \E m \in Range(material_names) : ExternalStop(m)
    \/ \E m \in Range(material_names), s \in Range(config.types) : ReadResults(m, s)
    \/ \E m \in Range(material_names) : SetupCalc(m, "rlx-coarse", 0)

SpecStop == InitStop /\ [][NextStop]_vars

(* Two materials and the relaxation stages: the script, and jobs that end   *)
(* converged or with an error no rerun can address.                         *)
TwoConfig == Cfg(<<"rlx-coarse", "rlx">>, TRUE, TRUE, 0, {})

TwoOutcomes == {"conv", "oom_seg", "fatal"}

InitTwo ==
    /\ computer = "quest"
    /\ config = TwoConfig
    /\ material_names = <<"m1", "m2">>
    /\ dirs = [m \in Materials |-> [s \in Stages |-> NoDir]]
    /\ stopMarker = [m \in Materials |-> FALSE]
    /\ queue = {}
    /\ nextJobId = 1
    /\ resultsFile = [m \in Materials |-> NoResults]
    /\ resultsExists = FALSE
    /\ trace = <<>>
    /\ lastOp = Op("init", "", "", FALSE, FALSE, 0)
    /\ passNo = 0
    /\ _results = [m \in Materials |-> NoResults]

NextTwo ==
    \/ Pass
    \/ \E j \in queue, o \in TwoOutcomes : JobFinishes(j, o)

SpecTwo == InitTwo /\ [][NextTwo]_vars

(* The script run while potcar_dir holds no POTCAR for the elements of the  *)
(* materials in missing                                                     *)
PassWithout(missing) ==
    /\ \E w \in {run_calculations_on([World EXCEPT !.nopotcar = missing], config)} :
        /\ w.nextId <= MaxJobs + 1
        /\ dirs' = w.dirs
        /\ stopMarker' = w.stop
        /\ queue' = w.queue
        /\ nextJobId' = w.nextId
        /\ resultsFile' = IF w.raised THEN resultsFile ELSE w.store
        /\ resultsExists' = (resultsExists \/ ~w.raised)
        /\ trace' = w.trace
        /\ lastOp' = Op("pass", "", "", ~w.raised, FALSE, Cardinality(missing))
    /\ UNCHANGED <<_results, computer, config, material_names, passNo>>

NextMissing ==
    \/ \E missing \in {{}, {"m1"}, {"m2"}} : PassWithout(missing)
    \/ \E j \in queue, o \in TwoOutcomes : JobFinishes(j, o)

SpecMissing == InitTwo /\ [][NextMissing]_vars

(* The script with use_multiprocessing: the workers' steps interleave in any *)
(* order                                                                    *)
run_calculations_pool(w, craw, sched) ==
    LET c == [craw EXCEPT !.types = calculation_types(craw.types)] IN
    run_pool(init_managers(w, c, 1, 1), c, sched)

PoolPass(sched) ==
    /\ \E w \in {run_calculations_pool(World, config, sched)} :
        /\ w.nextId <= MaxJobs + 1
        /\ dirs' = w.dirs
        /\ stopMarker' = w.stop
        /\ queue' = w.queue
        /\ nextJobId' = w.nextId
        /\ resultsFile' = IF w.raised THEN resultsFile ELSE w.store
        /\ resultsExists' = (resultsExists \/ ~w.raised)
        /\ trace' = w.trace
        /\ lastOp' = Op("pool_pass", "", "", ~w.raised, FALSE, 0)
    /\ UNCHANGED <<_results, computer, config, material_names, passNo>>

Schedules == [1..PoolSteps -> {"m1", "m2"}]

NextPool ==
    \/ \E sched \in Schedules : PoolPass(sched)
    \/ \E j \in queue, o \in TwoOutcomes : JobFinishes(j, o)

SpecPool == InitTwo /\ [][NextPool]_vars

(* A VaspManager instance the user keeps (constructed at any time) and asks *)
(* for a summary, while runs of the script go on writing results.json.      *)
Construct ==
    /\ _results' = LoadResults
    /\ _results' # _results
    /\ trace' = <<>>
    /\ lastOp' = Op("construct", "", "", TRUE, FALSE, 0)
    /\ UNCHANGED <<computer, config, material_names, dirs, stopMarker, queue,
                   nextJobId, resultsFile, resultsExists, passNo>>

Summary ==
    /\ \E r \in {summary(resultsFile, resultsExists, _results,
                          calculation_types(config.types))} :
        /\ trace' = r.trace
        /\ lastOp' = Op("summary", "", "", ~r.raised, FALSE, 0)
    /\ UNCHANGED <<_results, computer, config, material_names, dirs, stopMarker,
                   queue, nextJobId, resultsFile, resultsExists, passNo>>

(* summary(as_string=False) called on the instance the user keeps *)
SummaryDict ==
    /\ \E r \in {summary_dict(resultsFile, resultsExists, _results,
                               calculation_types(config.types), material_names)} :
        lastOp' = [Op("summary_dict", "", "", ~r.raised, FALSE, 0)
                     EXCEPT !.val = IF r.raised THEN Absent ELSE r]
    /\ trace' = <<>>
    /\ UNCHANGED <<_results, computer, config, material_names, dirs, stopMarker,
                   queue, nextJobId, resultsFile, resultsExists, passNo>>

(* Two materials, the script run again and again, and the summary dict     *)
(* asked for in between                                                    *)
NextReport ==
    \/ Pass
    \/ \E j \in queue, o \in TwoOutcomes : JobFinishes(j, o)
    \/ Construct
    \/ SummaryDict

SpecReport == InitTwo /\ [][NextReport]_vars

InitSummary == InitWith({"quest"}, {TwoConfig})

NextSummary ==
    \/ Pass
    \/ \E j \in queue, o \in AllOutcomes : JobFinishes(j, o)
    \/ Construct
    \/ Summary

SpecSummary == InitSummary /\ [][NextSummary]_vars

(* rlx jobs end converged or not, static jobs end with or without their     *)
(* energy line, none with an error message: every job submitted after the   *)
(* last rlx job is a static job                                             *)
RetryConfig == Cfg(<<"rlx", "static">>, TRUE, TRUE, 0, {})

RetryOutcomes == {"conv", "unconv", "scf", "noscf"}

InitRetry == InitWith({"quest"}, {RetryConfig})

NextRetry ==
    \/ Pass
    \/ \E j \in queue, o \in RetryOutcomes : JobFinishes(j, o)
    \/ \E m \in Range(material_names) : ExternalStop(m)

SpecRetry == InitRetry /\ [][NextRetry]_vars

(* _address_vasp_errors called on a stage directory whose INCAR holds any   *)
(* of the ALGO and SYMPREC values the program writes, with any set of error *)
(* tags                                                                     *)
ErrorTags == {"Sub-Space-Matrix", "Inconsistent Bravais", "oom-kill", "Fatal error",
              "Segmentation"}

InitErrors ==
    /\ computer \in Computers
    /\ config = Default
    /\ material_names = <<"m1">>
    /\ \E a \in {ConfigAlgo, "Fast"}, p \in {ConfigSymprec, "1e-08"} :
          dirs = [m \in Materials |-> [s \in Stages |->
                    IF m = "m1" /\ s = "rlx-coarse"
                    THEN [NoDir EXCEPT !.exists = TRUE, !.poscar = OrigStruct,
                                       !.vaspq = TRUE, !.algo = a, !.symprec = p,
                                       !.ispin = 2, !.nodes = 1, !.wall = 1]
                    ELSE NoDir]]
    /\ stopMarker = [m \in Materials |-> FALSE]
    /\ queue = {}
    /\ nextJobId = 1
    /\ resultsFile = [m \in Materials |-> NoResults]
    /\ resultsExists = FALSE
    /\ trace = <<>>
    /\ lastOp = Op("init", "", "", FALSE, FALSE, 0)
    /\ passNo = 0
    /\ _results = [m \in Materials |-> NoResults]

AddressErrors(m, s, errors) ==
    /\ \E w \in {_address_vasp_errors(World, m, s, errors)} :
        /\ trace' = w.trace
        /\ lastOp' = [Op("_address_vasp_errors", m, s, w.ret, FALSE, 0)
                         EXCEPT !.arg = errors]
    /\ UNCHANGED <<_results, computer, config, material_names, dirs, stopMarker,
                   queue, nextJobId, resultsFile, resultsExists, passNo>>

NextErrors == \E errors \in SUBSET ErrorTags : AddressErrors("m1", "rlx-coarse", errors)

SpecErrors == InitErrors /\ [][NextErrors]_vars

(* rlx alone, with and without to_rerun: relaxations that converge with a   *)
(* volume change below, at and above the threshold, or do not converge      *)
VolumeConfigs == {Cfg(<<"rlx">>, TRUE, TRUE, 0, {}), Cfg(<<"rlx">>, FALSE, TRUE, 0, {})}

VolumeOutcomes == {"conv", "conv_drift", "unconv", "fatal"} \cup VolumeEdge

InitVolume == InitWith({"quest"}, VolumeConfigs)

NextVolume ==
    \/ Pass
    \/ \E j \in queue, o \in VolumeOutcomes : JobFinishes(j, o)

SpecVolume == InitVolume /\ [][NextVolume]_vars

(* rlx and elastic, with and without to_rerun: elastic jobs that end with   *)
(* any "Total" line, or with none                                           *)
ElasticConfigs ==
    {Cfg(<<"rlx", "elastic">>, TRUE, TRUE, 0, {}), Cfg(<<"rlx", "elastic">>, FALSE, TRUE, 0, {})}

ElasticOutcomes == {"conv", "el_all", "el_short", "el_nototal"} \cup ElasticEdge

InitElastic == InitWith({"quest"}, ElasticConfigs)

NextElastic ==
    \/ Pass
    \/ \E j \in queue, o \in ElasticOutcomes : JobFinishes(j, o)

SpecElastic == InitElastic /\ [][NextElastic]_vars

(* bulkmod managers built with any strain list of up to MaxStrains values,  *)
(* given as calculation_manager_kwargs["bulkmod"]["strains"]                *)
MaxStrains == 3

StrainLists == UNION {[1..n -> StrainValues] : n \in 1..MaxStrains}

StrainConfigs ==
    {[strains |-> values] @@ Cfg(<<"rlx", "bulkmod">>, TRUE, TRUE, 0, {}) : values \in StrainLists}

InitStrains == InitWith({"quest"}, StrainConfigs)

(* BulkmodCalculationManager(..., strains=values) *)
SetStrains ==
    /\ lastOp.op = "init"
    /\ lastOp' = [Op("strains", "m1", "bulkmod", strains(config.strains), FALSE, 0)
                     EXCEPT !.arg = config.strains]
    /\ UNCHANGED <<_results, computer, config, material_names, dirs, stopMarker,
                   queue, nextJobId, resultsFile, resultsExists, trace, passNo>>

(* setup_calc of that manager makes the strain directories in a new stage   *)
(* directory                                                                *)
MakeStrains ==
    /\ lastOp.op = "strains"
    /\ lastOp.ret
    /\ lastOp' = [Op("_make_bulkmod_strains", "m1", "bulkmod", TRUE, FALSE, 0)
                     EXCEPT !.arg = config.strains,
                            !.val = _make_bulkmod_strains(<<>>, config.strains, 0)]
    /\ UNCHANGED <<_results, computer, config, material_names, dirs, stopMarker,
                   queue, nextJobId, resultsFile, resultsExists, trace, passNo>>

NextStrains == SetStrains \/ MakeStrains

SpecStrains == InitStrains /\ [][NextStrains]_vars

(* rlx and bulkmod, with and without to_rerun: relaxations that converge or *)
(* not, bulkmod jobs that end in any of the ways of OutcomesOf("bulkmod")   *)
BulkmodConfigs ==
    {Cfg(<<"rlx", "bulkmod">>, TRUE, TRUE, 0, {}), Cfg(<<"rlx", "bulkmod">>, FALSE, TRUE, 0, {})}

InitBulkmod == InitWith({"quest"}, BulkmodConfigs)

NextBulkmod ==
    \/ Pass
    \/ \E j \in queue, o \in {"conv", "unconv"} \cup OutcomesOf("bulkmod") : JobFinishes(j, o)

SpecBulkmod == InitBulkmod /\ [][NextBulkmod]_vars

(* to_rerun = False: runs of the script set the stages up, the jobs end in  *)
(* any way, and is_done / results are read on managers of every stage       *)
NoRerun == Cfg(AllTypes, FALSE, TRUE, 0, {})

InitNoRerun == InitWith(Computers, {NoRerun})

NextNoRerun ==
    \/ Pass
    \/ \E j \in queue, o \in AllOutcomes : JobFinishes(j, o)
    \/ \E m \in Range(material_names), s \in Stages : ReadResults(m, s)

SpecNoRerun == InitNoRerun /\ [][NextNoRerun]_vars

(* rlx and static with magmom_per_atom_cutoff = 1.0 or 0.0, with and        *)
(* without to_rerun: relaxations that converge with or without a magnetic   *)
(* moment, or whose job was cancelled before it wrote stdout.txt; here      *)
(* every archive of rlx is made by a resubmission without spin              *)
SpinConfigs ==
    {Cfg(<<"rlx", "static">>, r, TRUE, cutoff, {}) : r \in BOOLEAN, cutoff \in {0, 1000}}

SpinOutcomes == {"conv", "nostdout", "scf"} \cup SpinEdge

InitSpin == InitWith({"quest"}, SpinConfigs)

NextSpin ==
    \/ Pass
    \/ \E j \in queue, o \in SpinOutcomes : JobFinishes(j, o)

SpecSpin == InitSpin /\ [][NextSpin]_vars

(* The end-to-end scenario: the default script on a cluster, runs counted. *)
InitE2E == InitWith({"quest"}, {Default})

NextE2E ==
    \/ NumberedPass
    \/ \E j \in queue, o \in AllOutcomes : JobFinishes(j, o)

SpecE2E == InitE2E /\ [][NextE2E]_vars

----------------------------------------------------------------------------
(* Properties *)

SecondSubmit ==
    /\ lastOp.op = "submit_job"
    /\ lastOp.twice
    /\ ~ContainsPersonal(computer)

AfterPass == lastOp.op = "pass"

Calls(t, evs, m, s) ==
    {i \in 1..Len(t) : t[i].ev \in evs /\ t[i].m = m /\ t[i].s = s}

CallsOf(t, evs, m) ==
    {i \in 1..Len(t) : t[i].ev \in evs /\ t[i].m = m}

(* setup_calc and everything it or a rerun does to a stage directory *)
SetupEvents == {"orch_setup", "setup", "create", "submit", "archive", "wipe", "cancel"}

IsDoneEntry(p) == p.tag \notin {"absent", "null", "STOPPED", "not finished"}

(* C2, within a pass: after stop() has written the STOP marker of a         *)
(* material, the rest of that pass makes no setup_calc, input creation,     *)
(* archive, submission or check_calc call for any stage of the material.    *)
C2_RestOfPass ==
    \A m \in Materials : \A i \in CallsOf(trace, {"stop"}, m) :
        /\ stopMarker[m]
        /\ \A j \in CallsOf(trace, SetupEvents \cup {"check"}, m) : j < i

(* C2, later passes: a pass that starts with the STOP marker of a material  *)
(* present leaves every stage directory of the material as it was (no new   *)
(* job id, no new archive, no new input) and makes no setup_calc call.      *)
C2_LaterPass ==
    \A m \in Materials :
        (stopMarker[m] /\ lastOp'.op = "pass") =>
            /\ dirs'[m] = dirs[m]
            /\ stopMarker'[m]
            /\ CallsOf(trace', SetupEvents \cup {"check"}, m) = {}
            /\ nextJobId' = nextJobId

(* C2: once the STOP marker of a material exists, neither the rest of the   *)
(* current pass nor any later pass calls setup_calc or a resubmission path  *)
(* for any stage of that material: no new job id and no new archive appear  *)
(* while the marker remains.                                                *)
C2_StopIsTerminal == []C2_RestOfPass /\ [][C2_LaterPass]_vars

(* a pass in which static stopped and the orchestrator went on to bulkmod *)
C2_Witness ==
    /\ AfterPass
    /\ stopMarker["m1"]
    /\ \E i \in Calls(trace, {"stop"}, "m1", "static") :
           \E j \in Calls(trace, {"visit"}, "m1", "bulkmod") : j > i
    /\ dirs["m1"]["bulkmod"].jobid # NoFile

(* C3 as an action: with the stage not in from_scratch, a stage whose entry *)
(* in results.json is a done outcome keeps that entry unchanged in every    *)
(* step, and a pass makes no setup_calc or check_calc call for it.          *)
C3_Step ==
    \A m \in Materials, s \in Stages :
        (resultsExists /\ IsDoneEntry(resultsFile[m][s]) /\ s \notin config.from_scratch) =>
            /\ resultsFile'[m][s] = resultsFile[m][s]
            /\ resultsExists'
            /\ lastOp'.op = "pass" =>
                  /\ Calls(trace', SetupEvents \cup {"check", "done", "notdone"}, m, s) = {}
                  /\ dirs'[m][s] = dirs[m][s]

(* C3: with from_scratch false, once the store entry of a stage is a done   *)
(* outcome, every later pass skips the stage (neither setup_calc nor        *)
(* check_calc is called) and the stored payload never changes.              *)
C3_DoneIsSkipped == [][C3_Step]_vars

C3_Witness ==
    /\ AfterPass
    /\ IsDoneEntry(resultsFile["m1"]["rlx"])
    /\ Calls(trace, {"skip"}, "m1", "rlx") # {}
    /\ Calls(trace, {"check"}, "m1", "static") # {}

StageIndex(s) == CHOOSE i \in 1..Len(proper_order) : proper_order[i] = s

(* the stages of the sequence a stage takes its structure from *)
Dependencies(s) ==
    {d \in {"rlx-coarse", "rlx"} \cap Range(config.types) : StageIndex(d) < StageIndex(s)}

(* C4: for any list of calculation types in any order, a pass visits the    *)
(* stages in the order rlx-coarse, rlx, static, bulkmod, elastic, and calls *)
(* setup_calc or check_calc of a stage only after every dependency of the   *)
(* stage in the sequence was skipped as done in the store or found done     *)
(* earlier in the same pass.                                                *)
C4_OrderAndDependencies ==
    AfterPass =>
        \A m \in Materials :
            /\ \A i, j \in CallsOf(trace, {"visit"}, m) :
                   i < j => StageIndex(trace[i].s) < StageIndex(trace[j].s)
            /\ \A i \in CallsOf(trace, {"setup", "check"}, m) :
                   \A d \in Dependencies(trace[i].s) :
                       \E j \in Calls(trace, {"skip", "done"}, m, d) : j < i

(* a pass given the types in reverse order that gets as far as elastic *)
C4_Witness ==
    /\ AfterPass
    /\ config.types = Reversed
    /\ Calls(trace, {"done"}, "m1", "rlx") # {}
    /\ Calls(trace, {"setup"}, "m1", "elastic") # {}

(* C5: for every stage, when check_calc on a completed job finds failure    *)
(* signatures that are not all addressed, it writes the STOP marker and     *)
(* returns not-done; it makes no archive, re-creates no input and submits   *)
(* no job, whatever to_rerun is.                                            *)
C5_UnaddressedStops ==
    \A i \in 1..Len(trace) :
        (trace[i].ev = "errors" /\ trace[i].n = 0) =>
            LET m == trace[i].m
                s == trace[i].s IN
            /\ stopMarker[m]
            /\ i < Len(trace) /\ trace[i + 1].ev = "stop" /\ trace[i + 1].s = s
            /\ Calls(trace, SetupEvents, m, s) = {}
            /\ Calls(trace, {"done"}, m, s) = {}
            /\ ~IsDoneEntry(resultsFile[m][s])

(* bulkmod stops on NELM in its last strain although to_rerun is on *)
C5_Witness ==
    /\ AfterPass
    /\ config.to_rerun
    /\ \E i \in Calls(trace, {"errors"}, "m1", "bulkmod") : trace[i].n = 0
    /\ dirs["m1"]["bulkmod"].out = "bm_last_nelm"
    /\ dirs["m1"]["bulkmod"].jobid # NoFile

Relax == {"rlx-coarse", "rlx"}

(* the job of the stage has left the queue and wrote stdout.txt *)
Completed(m, s) ==
    /\ job_complete(World, m, s, FALSE)
    /\ HasStdout(dirs[m][s])

Checked(t, m, s) == Calls(t, {"check"}, m, s) # {}

(* C6 as an action: a pass whose check_calc meets "Sub-Space-Matrix" in the *)
(* log of a completed attempt that already ran with ALGO = Fast writes the  *)
(* STOP marker and leaves the stage directory and its job id as they were.  *)
C6_Step ==
    \A m \in Materials, s \in Stages :
        ( /\ lastOp'.op = "pass"
          /\ Checked(trace', m, s)
          /\ Completed(m, s)
          /\ "Sub-Space-Matrix" \in Outcome(dirs[m][s].out).out
          /\ dirs[m][s].algo = "Fast" ) =>
            /\ stopMarker'[m]
            /\ dirs'[m][s] = dirs[m][s]
            /\ Calls(trace', SetupEvents, m, s) = {}
            /\ Calls(trace', {"stop"}, m, s) # {}

(* C6: when "Sub-Space-Matrix" is detected in two consecutive attempts of a *)
(* stage and ALGO in the INCAR is already Fast from the first fix, the      *)
(* second detection is unaddressed: STOP marker, no resubmission.           *)
C6_SecondDetectionStops == [][C6_Step]_vars

(* the second rlx-coarse attempt, archived once, stopped on the signature *)
C6_Witness ==
    /\ AfterPass
    /\ stopMarker["m1"]
    /\ Calls(trace, {"stop"}, "m1", "rlx-coarse") # {}
    /\ dirs["m1"]["rlx-coarse"].out = "ssm"
    /\ dirs["m1"]["rlx-coarse"].algo = "Fast"
    /\ num_archives(World, "m1", "rlx-coarse") = 1

(* check_calc of the stage called setup_calc in the run that led to t *)
Retried(t, m, s) ==
    \E i \in Calls(t, {"check"}, m, s) : \E j \in Calls(t, {"setup"}, m, s) : j > i

ArchivesKept(m, s) ==
    LET a == dirs[m][s].archives
        b == dirs'[m][s].archives IN
    \A k \in DOMAIN a : k \in DOMAIN b /\ b[k] = a[k]

OneMoreArchive(m, s) ==
    LET n == num_archives(World, m, s)
        b == dirs'[m][s].archives IN
    /\ DOMAIN b = 0..n
    /\ b[n] = Snapshot(dirs[m][s])

(* C7 as stated, as an action: every retry-triggering check_calc of a stage *)
(* adds exactly one archive, numbered by the count of the archives before   *)
(* it, and keeps the existing ones.                                         *)
C7_AsStatedStep ==
    \A m \in Materials, s \in Stages :
        (lastOp'.op = "pass" /\ Retried(trace', m, s)) =>
            OneMoreArchive(m, s) /\ ArchivesKept(m, s)

C7_AsStated == [][C7_AsStatedStep]_vars

C7_Step ==
    \A m \in Materials, s \in Relax :
        LET a == dirs[m][s].archives
            b == dirs'[m][s].archives
            n == num_archives(World, m, s) IN
        /\ DOMAIN a = 0..(n - 1)
        /\ ArchivesKept(m, s)
        /\ (lastOp'.op = "pass" /\ Retried(trace', m, s)) =>
              IF HasStdout(dirs[m][s]) /\ Readable(dirs[m][s].contcar)
              THEN OneMoreArchive(m, s)
              ELSE b = a
        /\ ~(lastOp'.op = "pass" /\ Retried(trace', m, s)) => b = a

(* C7: a retry-triggering check_calc of rlx-coarse or rlx whose finished    *)
(* attempt wrote stdout.txt and a non-empty CONTCAR creates exactly one new *)
(* archive, archive_k with k the number of archives before it, so N such    *)
(* retries leave archive_0 .. archive_{N-1}; a retry after an attempt with  *)
(* no stdout.txt or with a missing or empty CONTCAR creates none; no step   *)
(* overwrites or deletes an existing archive.                               *)
C7_ArchivesNumbered == [][C7_Step]_vars

(* two archived retries of rlx-coarse in a row *)
C7_Witness ==
    /\ AfterPass
    /\ Retried(trace, "m1", "rlx-coarse")
    /\ Calls(trace, {"archive"}, "m1", "rlx-coarse") # {}
    /\ DOMAIN dirs["m1"]["rlx-coarse"].archives = {0, 1}
    /\ dirs["m1"]["rlx-coarse"].archives[0].jobid = 1
    /\ dirs["m1"]["rlx-coarse"].archives[1].jobid = 2

(* C8 as stated: in every reachable state the number of archive_*           *)
(* directories of rlx-coarse and of rlx is at most max_reruns.              *)
C8_ArchivesBounded ==
    \A m \in Materials, s \in Relax : num_archives(World, m, s) <= config.max_reruns

OrchSetups(m) == CallsOf(trace, {"orch_setup"}, m)

(* C9 as stated: in one pass the orchestrator calls setup_calc for at most  *)
(* one stage of a material.                                                 *)
C9_AsStated ==
    AfterPass => \A m \in Materials : Cardinality(OrchSetups(m)) <= 1

(* C9: in one pass the orchestrator calls setup_calc at most once per stage *)
(* of a material; after a setup_calc of rlx-coarse or rlx it does nothing   *)
(* more for the material in that pass, so at most one of the two is set up, *)
(* while static, bulkmod and elastic may all be set up in the same pass.    *)
C9_OneRelaxSetupPerPass ==
    AfterPass =>
        \A m \in Materials :
            /\ \A s \in Stages : Cardinality(Calls(trace, {"orch_setup"}, m, s)) <= 1
            /\ \A i \in OrchSetups(m) :
                  trace[i].s \in Relax =>
                      \A j \in CallsOf(trace, {"visit", "orch_setup", "check", "done",
                                               "notdone"}, m) : j <= i

(* static, bulkmod and elastic set up in one pass *)
C9_Witness ==
    /\ AfterPass
    /\ \A s \in {"static", "bulkmod", "elastic"} :
          /\ Calls(trace, {"orch_setup"}, "m1", s) # {}
          /\ Calls(trace, {"submit"}, "m1", s) # {}

FirstAttemptConverged ==
    /\ dirs["m1"]["rlx-coarse"].out = "conv"
    /\ dirs["m1"]["rlx-coarse"].jobid = 1

(* C10 as stated: the second pass, finding the rlx-coarse job complete and  *)
(* converged, records rlx-coarse as done and does not set up rlx.           *)
C10_AsStated ==
    (AfterPass /\ passNo = 2 /\ FirstAttemptConverged) =>
        /\ resultsFile["m1"]["rlx-coarse"] = Payload("done", 0)
        /\ Calls(trace, {"setup"}, "m1", "rlx") = {}

(* C10: the first pass creates the rlx-coarse inputs and its job id and     *)
(* touches no other stage; the second pass, finding that job complete and   *)
(* converged, records rlx-coarse as "done" and sets up rlx in the same pass *)
(* (inputs from the rlx-coarse CONTCAR, a new job id), recording nothing    *)
(* for rlx and touching no later stage.                                     *)
C10_EndToEnd ==
    /\ (AfterPass /\ passNo = 1) =>
          /\ Calls(trace, {"create"}, "m1", "rlx-coarse") # {}
          /\ dirs["m1"]["rlx-coarse"].jobid = 1
          /\ \A s \in Stages \ {"rlx-coarse"} : ~dirs["m1"][s].exists
          /\ resultsFile["m1"] = NoResults
    /\ (AfterPass /\ passNo = 2 /\ FirstAttemptConverged) =>
          /\ resultsFile["m1"]["rlx-coarse"] = Payload("done", 0)
          /\ Calls(trace, {"orch_setup"}, "m1", "rlx") # {}
          /\ dirs["m1"]["rlx"].poscar = dirs["m1"]["rlx-coarse"].contcar
          /\ dirs["m1"]["rlx"].jobid = 2
          /\ resultsFile["m1"]["rlx"] = Absent
          /\ \A s \in Stages \ Relax : ~dirs["m1"][s].exists

C10_Witness ==
    /\ AfterPass
    /\ passNo = 2
    /\ FirstAttemptConverged
    /\ \E j \in queue : j.id = 2 /\ j.s = "rlx"

(* the job recorded in the stage directory has left the queue *)
JobEnded(m, s) ==
    /\ dirs[m][s].jobid # NoFile
    /\ ~ \E j \in queue : j.id = dirs[m][s].jobid

(* the acceptance check of each stage, read from the logs in its directory *)
Accepted(m, s) ==
    LET d == dirs[m][s]
        log == Outcome(d.out) IN
    CASE s = "rlx-coarse" -> "reached required accuracy" \in log.out
      [] s = "rlx" -> "reached required accuracy" \in log.out /\ log.dvol < 50
      [] s = "static" -> "1 F=" \in log.out
      [] s = "bulkmod" -> \A i \in 1..NStrains : "1 F=" \in StrainLog(d.out, i).out
      [] s = "elastic" -> /\ "Total" \in log.out
                          /\ IsInt(log.K) /\ IsInt(log.N)
                          /\ int(log.K) = int(log.N)

ReportedDone(m, s) ==
    \/ resultsExists /\ IsDoneEntry(resultsFile[m][s])
    \/ AfterPass /\ Calls(trace, {"done"}, m, s) # {}

(* C11 as stated: a stage is reported done only after its job has completed *)
(* and its acceptance check passed.                                         *)
C11_AsStated ==
    \A m \in Materials, s \in Stages :
        ReportedDone(m, s) => JobEnded(m, s) /\ Accepted(m, s)

(* rlx-coarse gives up on convergence once max_reruns - 1 archives exist *)
CoarseForced(m) ==
    LET d == dirs[m]["rlx-coarse"] IN
    /\ HasStdout(d)
    /\ _check_vasp_errors(Outcome(d.out), {}) = {}
    /\ "reached required accuracy" \notin Outcome(d.out).out
    /\ num_archives(World, m, "rlx-coarse") >= config.max_reruns - 1

(* C11: a stage is reported done only after its job has completed and its   *)
(* acceptance check passed ("reached required accuracy" for rlx-coarse and  *)
(* rlx, plus volume change below 5% for rlx, "1 F=" for static and every    *)
(* bulkmod strain, finished = total for elastic), with one exception:       *)
(* rlx-coarse is also reported done without the convergence marker when its *)
(* error-free attempt ended with max_reruns - 1 or more archives present.   *)
C11_DoneOnlyWhenAccepted ==
    \A m \in Materials, s \in Stages :
        ReportedDone(m, s) =>
            /\ JobEnded(m, s)
            /\ Accepted(m, s) \/ (s = "rlx-coarse" /\ CoarseForced(m))

(* rlx-coarse forced through unconverged and recorded, rlx set up after it *)
C11_Witness ==
    /\ AfterPass
    /\ Calls(trace, {"done"}, "m1", "rlx-coarse") # {}
    /\ IsDoneEntry(resultsFile["m1"]["rlx-coarse"])
    /\ CoarseForced("m1")
    /\ JobEnded("m1", "rlx-coarse")
    /\ Calls(trace, {"submit"}, "m1", "rlx") # {}

LiveJobs(q, m, s) == {j \in q : j.m = m /\ j.s = s}

C12_OneLive ==
    \A m \in Materials, s \in Stages :
        /\ Cardinality(LiveJobs(queue, m, s)) <= 1
        /\ \A j \in LiveJobs(queue, m, s) : j.id = dirs[m][s].jobid

C12_Step ==
    \A m \in Materials, s \in Stages :
        /\ (dirs[m][s].jobid # NoFile /\ dirs'[m][s].jobid # dirs[m][s].jobid) =>
              ~ \E j \in queue' : j.id = dirs[m][s].jobid
        /\ (LiveJobs(queue', m, s) \ queue # {}) => LiveJobs(queue', m, s) \cap queue = {}

(* C12: at most one job submitted from a stage directory is live at any     *)
(* time, and it is the one named by the jobid marker; a marker is removed   *)
(* or replaced only when its job has left the queue (finished or            *)
(* cancelled), and a job is submitted only when no other job of the         *)
(* directory stays live.                                                    *)
C12_OneLiveJobPerStage == []C12_OneLive /\ [][C12_Step]_vars

(* the retry of rlx-coarse: first attempt archived, second job live *)
C12_Witness ==
    /\ AfterPass
    /\ Calls(trace, {"archive"}, "m1", "rlx-coarse") # {}
    /\ Calls(trace, {"submit"}, "m1", "rlx-coarse") # {}
    /\ dirs["m1"]["rlx-coarse"].archives[0].jobid = 1
    /\ LiveJobs(queue, "m1", "rlx-coarse") = {[id |-> 2, m |-> "m1", s |-> "rlx-coarse"]}

NothingSubmitted == UNCHANGED <<dirs, queue, nextJobId>>

C13_Step ==
    (lastOp'.op = "submit_job") =>
        LET m == lastOp'.m
            s == lastOp'.s
            d == dirs[m][s]
            ret == lastOp'.ret IN
        IF d.exists /\ d.jobid \notin {NoFile, EmptyFile}
        THEN ret /\ NothingSubmitted
        ELSE IF computer = "personal"
        THEN ret /\ NothingSubmitted
        ELSE IF ~(d.exists /\ d.vaspq)
        THEN ~ret /\ NothingSubmitted
        ELSE /\ ret
             /\ queue' = queue \cup {[id |-> nextJobId, m |-> m, s |-> s]}
             /\ Cardinality(queue') = Cardinality(queue) + 1
             /\ dirs' = [dirs EXCEPT ![m][s].jobid = nextJobId]

(* C13: submit_job decides in this order: a non-empty jobid marker gives    *)
(* True and no submission; else the personal computer gives True, no        *)
(* submission and no marker; else a missing vasp.q gives False, no          *)
(* submission and no marker; otherwise exactly one job is submitted, its id *)
(* is written to the marker and True is returned.  An empty marker counts   *)
(* as no job.                                                               *)
C13_SubmitDecision == [][C13_Step]_vars

(* a job submitted over an empty marker, on the cluster *)
C13_Witness ==
    /\ lastOp.op = "submit_job"
    /\ lastOp.before = EmptyFile
    /\ lastOp.ret
    /\ computer = "quest"
    /\ dirs[lastOp.m][lastOp.s].jobid = nextJobId - 1
    /\ \E j \in queue : j.id = nextJobId - 1 /\ j.m = lastOp.m /\ j.s = lastOp.s

Listed(id) == \E j \in queue : j.id = id

(* C14: job_complete is True on the personal computer whatever the jobid    *)
(* marker holds; on a cluster, for the job named by the marker, it is True  *)
(* iff that id is not in the scheduler's listing.                           *)
C14_AsStated ==
    (lastOp.op = "job_complete") =>
        IF computer = "personal" THEN lastOp.ret
        ELSE (lastOp.before \notin {NoFile, EmptyFile}) =>
                 (lastOp.ret <=> ~Listed(lastOp.before))

(* C15: every later evaluation of job_complete on the same JobManager       *)
(* returns the value of the first evaluation.                               *)
C15_AsStated ==
    (lastOp.op = "job_complete") => (lastOp.twice = lastOp.ret)

(* C16: one call of setup_calc enters setup_calc at most twice: the call    *)
(* itself and one re-entry after submit_job returned False.                 *)
C16_AsStated ==
    (lastOp.op = "setup_calc") =>
        Cardinality(Calls(trace, {"setup"}, lastOp.m, lastOp.s)) <= 2

Unfinished(s) == IF s = "rlx-coarse" THEN "not finished" ELSE "null"
Parsed(s) == IF s = "rlx-coarse" THEN "done" ELSE s

C18_StopNeverRemoved ==
    [][\A m \in Materials : stopMarker[m] => stopMarker'[m]]_vars

(* a from-scratch wipe of a stage of a material that was stopped before *)
C18_Witness ==
    /\ stopMarker["m1"]
    /\ CallsOf(trace, {"wipe"}, "m1") # {}
    /\ CallsOf(trace, {"stop"}, "m1") = {}

(* what a run of the script on material b alone does, from the same state *)
Alone(b) ==
    UpdateStore(_manage_calculations(World,
                                     [config EXCEPT !.types = calculation_types(config.types)],
                                     b), b)

HasStopped(file, a) == \E s \in Stages : file[a][s].tag = "STOPPED"

C19_Step ==
    (lastOp'.op = "pass") =>
        \A a \in Range(material_names), b \in Range(material_names) :
            (a # b /\ stopMarker'[a]) =>
                /\ lastOp'.ret
                /\ resultsExists'
                /\ stopMarker[a] => HasStopped(resultsFile', a)
                /\ CallsOf(trace', {"visit"}, b) # {}
                /\ dirs'[b] = Alone(b).dirs[b]
                /\ resultsFile'[b] = Alone(b).store[b]

(* C19: a run in which a material is or becomes stopped by an error that   *)
(* cannot be addressed raises no exception and writes the store; a         *)
(* material stopped before the run has "STOPPED" in its entry; every other *)
(* material is still processed in that run, and its stage directories and  *)
(* results are those of a run without the stopped material.                *)
C19_StopDoesNotAbort == [][C19_Step]_vars

(* m1 is stopped in this run by its rlx-coarse error and m2, processed      *)
(* after it, has its finished rlx-coarse accepted and its rlx submitted     *)
C19_Witness ==
    /\ AfterPass
    /\ Calls(trace, {"stop"}, "m1", "rlx-coarse") # {}
    /\ stopMarker["m1"]
    /\ resultsExists
    /\ Calls(trace, {"done"}, "m2", "rlx-coarse") # {}
    /\ Calls(trace, {"submit"}, "m2", "rlx") # {}

Raised(t, m) == CallsOf(t, {"raise"}, m) # {}

(* C20: when the pseudopotential of a material is missing, only that        *)
(* material's processing is aborted: the other materials are processed in   *)
(* that run and the store is written at the end of it.                      *)
C20_AsStated ==
    \A a \in Range(material_names) :
        (AfterPass /\ Raised(trace, a)) =>
            /\ \A b \in Range(material_names) \ {a} : CallsOf(trace, {"visit"}, b) # {}
            /\ lastOp.ret
            /\ resultsExists

Siblings == {"static", "bulkmod", "elastic"}

(* checked in this run and not found done *)
FoundNotDone(m, s) ==
    /\ Calls(trace, {"check"}, m, s) # {}
    /\ Calls(trace, {"done"}, m, s) = {}

(* the stages of the run that come after s in the order of processing *)
SiblingsAfter(s) ==
    {t \in Siblings \cap Range(config.types) : StageIndex(t) > StageIndex(s)}

(* C21 as stated: a sibling found failed or not done never keeps the later  *)
(* siblings from being checked in the same run.                             *)
C21_AsStated ==
    \A m \in Materials, s \in {"static", "bulkmod"} :
        (AfterPass /\ lastOp.ret /\ FoundNotDone(m, s)) =>
            \A t \in SiblingsAfter(s) : Calls(trace, {"check", "skip"}, m, t) # {}

(* C21: a static or bulkmod found not done does not keep the later siblings *)
(* from being checked in the same run, as long as no check of that run sets *)
(* the STOP marker; once a check has stopped the material, the next stage   *)
(* is recorded as "STOPPED" and no later stage is checked.                  *)
C21_SiblingsIndependent ==
    \A m \in Materials, s \in {"static", "bulkmod"} :
        (AfterPass /\ lastOp.ret /\ FoundNotDone(m, s)) =>
            IF CallsOf(trace, {"stop"}, m) = {}
            THEN \A t \in SiblingsAfter(s) : Calls(trace, {"check", "skip"}, m, t) # {}
            ELSE \A t \in SiblingsAfter(s) :
                    (Calls(trace, {"stop"}, m, s) # {}) => Calls(trace, {"check"}, m, t) = {}

(* static is found not done and resubmitted, elastic is checked and done *)
C21_Witness ==
    /\ AfterPass
    /\ FoundNotDone("m1", "static")
    /\ Calls(trace, {"submit"}, "m1", "static") # {}
    /\ Calls(trace, {"done"}, "m1", "elastic") # {}

(* a stage directory without the number the scheduler gave to its job *)
Anon(d) == [d EXCEPT !.jobid = IF @ > 0 THEN 1 ELSE @]
AnonDirs(ds, m) == [s \in Stages |-> Anon(ds[m][s])]
AnonQueue(q) == {[m |-> j.m, s |-> j.s] : j \in q}

(* what the worker of material m did, in order *)
Did(t, m) ==
    LET mine == SelectSeq(t, LAMBDA e : e.m = m)
    IN  [i \in 1..Len(mine) |-> [ev |-> mine[i].ev, s |-> mine[i].s]]

(* the stages the worker of m went through, in order, with no step of one   *)
(* stage between the steps of another                                       *)
InStageOrder(t, m) ==
    LET mine == SelectSeq(t, LAMBDA e : e.m = m)
    IN  \A i, j \in 1..Len(mine) :
            i < j => StageIndex(mine[i].s) <= StageIndex(mine[j].s)

SameAsSequential(seq) ==
    /\ resultsFile' = (IF seq.raised THEN resultsFile ELSE seq.store)
    /\ stopMarker' = seq.stop
    /\ nextJobId' = seq.nextId
    /\ AnonQueue(queue') = AnonQueue(seq.queue)
    /\ \A m \in Materials :
          /\ AnonDirs(dirs', m) = AnonDirs(seq.dirs, m)
          /\ Did(trace', m) = Did(seq.trace, m)
          /\ InStageOrder(trace', m)

C22_Step ==
    (lastOp'.op = "pool_pass") => SameAsSequential(run_calculations(config))

C23_AsStated ==
    (lastOp.op = "summary" /\ resultsExists) =>
        /\ lastOp.ret
        /\ trace = summary(resultsFile, resultsExists, LoadResults,
                           calculation_types(config.types)).trace

(* static jobs submitted so far: the job numbers after the last rlx job *)
StaticAttempts(m) == dirs[m]["static"].jobid - dirs[m]["rlx"].jobid

(* C24, for static: a static job that ended without its energy line and     *)
(* without an error message is resubmitted only while the number of attempts *)
(* is below the bound max_reruns.                                           *)
C24_AsStated ==
    \A m \in Materials :
        (/\ AfterPass
         /\ Calls(trace, {"wipe"}, m, "static") # {}
         /\ Calls(trace, {"submit"}, m, "static") # {})
        => StaticAttempts(m) <= config.max_reruns

(* the remediation the catalogue has for one tag, given the INCAR in use *)
Remedied(d, e) ==
    CASE e = "Sub-Space-Matrix" -> d.algo # "Fast"
      [] e = "Inconsistent Bravais" -> d.symprec # "1e-08"
      [] e = "oom-kill" -> TRUE
      [] OTHER -> FALSE

(* C25: _address_vasp_errors returns True iff every tag of its input set    *)
(* had a remediation applied, each tag on its own: "Sub-Space-Matrix" iff   *)
(* ALGO in the INCAR is not "Fast", "Inconsistent Bravais" iff SYMPREC is   *)
(* not "1e-08", "oom-kill" always, any other tag never.                     *)
C25_AllAddressed ==
    (lastOp.op = "_address_vasp_errors") =>
        (lastOp.ret <=>
            \A e \in lastOp.arg : Remedied(dirs[lastOp.m][lastOp.s], e))

(* three tags at once, two remedied and the ALGO one not *)
C25_Witness ==
    /\ lastOp.op = "_address_vasp_errors"
    /\ lastOp.arg = {"Sub-Space-Matrix", "Inconsistent Bravais", "oom-kill"}
    /\ dirs["m1"]["rlx-coarse"].algo = "Fast"
    /\ dirs["m1"]["rlx-coarse"].symprec = ConfigSymprec
    /\ ~lastOp.ret

(* the run of the script checks the rlx job of m, which ended converged     *)
(* with no error message                                                    *)
RlxConverged(m) ==
    /\ JobEnded(m, "rlx")
    /\ HasStdout(dirs[m]["rlx"])
    /\ "reached required accuracy" \in Outcome(dirs[m]["rlx"].out).out
    /\ _check_vasp_errors(Outcome(dirs[m]["rlx"].out), {}) = {}
    /\ ~stopMarker[m]
    /\ ~(resultsExists /\ IsDoneEntry(resultsFile[m]["rlx"]))

C26_Step ==
    \A m \in Range(material_names) :
        (lastOp'.op = "pass" /\ RlxConverged(m)) =>
            LET d == dirs[m]["rlx"]
                k == Cardinality(DOMAIN d.archives) IN
            IF Outcome(d.out).dvol < 50
            THEN /\ Calls(trace', {"done"}, m, "rlx") # {}
                 /\ IsDoneEntry(resultsFile'[m]["rlx"])
                 /\ dirs'[m]["rlx"] = d
            ELSE /\ Calls(trace', {"done"}, m, "rlx") = {}
                 /\ ~IsDoneEntry(resultsFile'[m]["rlx"])
                 /\ IF config.to_rerun
                    THEN /\ Calls(trace', {"archive"}, m, "rlx") # {}
                         /\ Calls(trace', {"submit"}, m, "rlx") # {}
                         /\ DOMAIN dirs'[m]["rlx"].archives = DOMAIN d.archives \cup {k}
                         /\ dirs'[m]["rlx"].archives[k] = Snapshot(d)
                         /\ dirs'[m]["rlx"].jobid = nextJobId
                         /\ LiveJobs(queue', m, "rlx") =
                                {[id |-> nextJobId, m |-> m, s |-> "rlx"]}
                    ELSE dirs'[m]["rlx"] = d

(* C26: a converged rlx is accepted iff the volume of CONTCAR differs from  *)
(* the volume of the POSCAR it started from by less than 5 % (50 per mille): *)
(* 4.9 % is accepted; 5.0 % and 5.1 % are not accepted and, with to_rerun,  *)
(* the run is archived and rlx is submitted again.                          *)
C26_VolumeThreshold == [][C26_Step]_vars

(* a first relaxation was archived and resubmitted, the second one is       *)
(* accepted with a change of 4.9 %                                          *)
C26_Witness ==
    /\ AfterPass
    /\ Calls(trace, {"done"}, "m1", "rlx") # {}
    /\ dirs["m1"]["rlx"].out = "conv_dv49"
    /\ DOMAIN dirs["m1"]["rlx"].archives = {0}
    /\ IsDoneEntry(resultsFile["m1"]["rlx"])

(* the run of the script checks the elastic job of m, which ended with no   *)
(* error message and with a "Total" line in its log                         *)
ElasticEnded(m) ==
    /\ JobEnded(m, "elastic")
    /\ HasStdout(dirs[m]["elastic"])
    /\ _check_vasp_errors(Outcome(dirs[m]["elastic"].out), {"NELM"}) = {}
    /\ "Total" \in Outcome(dirs[m]["elastic"].out).out
    /\ Calls(trace', {"check"}, m, "elastic") # {}

C27_Step ==
    \A m \in Range(material_names) :
        LET d == dirs[m]["elastic"]
            log == Outcome(d.out) IN
        (lastOp'.op = "pass" /\ ElasticEnded(m) /\ IsInt(log.K) /\ IsInt(log.N)) =>
            IF int(log.K) = int(log.N)
            THEN /\ Calls(trace', {"done"}, m, "elastic") # {}
                 /\ IsDoneEntry(resultsFile'[m]["elastic"])
                 /\ dirs'[m]["elastic"] = d
            ELSE /\ Calls(trace', {"done"}, m, "elastic") = {}
                 /\ ~IsDoneEntry(resultsFile'[m]["elastic"])
                 /\ IF config.to_rerun
                    THEN /\ Calls(trace', {"wipe"}, m, "elastic") # {}
                         /\ Calls(trace', {"create"}, m, "elastic") # {}
                         /\ Calls(trace', {"submit"}, m, "elastic") # {}
                         /\ dirs'[m]["elastic"].jobid = nextJobId
                         /\ dirs'[m]["elastic"].out = "none"
                         /\ dirs'[m]["elastic"].wall = 2
                         /\ dirs'[m]["elastic"].nodes = 1
                    ELSE dirs'[m]["elastic"] = d

(* C27: for a completed elastic job with no error message whose last        *)
(* "Total" line reads K/N, check_calc reports success iff K = N as numbers; *)
(* for any other K it reports not done and, with to_rerun, wipes the stage, *)
(* creates it again and submits it with twice the configured walltime.      *)
C27_ElasticComplete == [][C27_Step]_vars

(* an elastic job that ended at 1/2 was resubmitted with more walltime, and *)
(* the new job, ended at 02/2, is accepted                                  *)
C27_Witness ==
    /\ AfterPass
    /\ Calls(trace, {"done"}, "m1", "elastic") # {}
    /\ dirs["m1"]["elastic"].out = "el_pad"
    /\ dirs["m1"]["elastic"].wall = 2
    /\ IsDoneEntry(resultsFile["m1"]["elastic"])

C28_Step ==
    \A m \in Range(material_names) :
        LET d == dirs[m]["elastic"]
            log == Outcome(d.out) IN
        (lastOp'.op = "pass" /\ ElasticEnded(m) /\ ~(IsInt(log.K) /\ IsInt(log.N))) =>
            /\ ~lastOp'.ret
            /\ Calls(trace', {"raise"}, m, "elastic") # {}
            /\ Calls(trace', {"done"}, m, "elastic") = {}
            /\ resultsFile' = resultsFile
            /\ ~IsDoneEntry(resultsFile'[m]["elastic"])
            /\ dirs'[m]["elastic"] = d

(* C28: when a count on the last "Total" line of the elastic log is not a   *)
(* number, check_calc raises: the stage is not reported done, the run ends  *)
(* with the exception and nothing is recorded in the store from that log.   *)
C28_MalformedRaises == [][C28_Step]_vars

(* the run that met the line "Total: 1O/2" *)
C28_Witness ==
    /\ AfterPass
    /\ ~lastOp.ret
    /\ Calls(trace, {"raise"}, "m1", "elastic") # {}
    /\ dirs["m1"]["elastic"].out = "el_malformed"
    /\ ~IsDoneEntry(resultsFile["m1"]["elastic"])

OddCentred(values) == Len(values) % 2 = 1 /\ values[(Len(values) \div 2) + 1] = 100

InBounds(values) == \A i \in 1..Len(values) : values[i] >= 80 /\ values[i] <= 120

(* the stage directory holds exactly strain_-k .. strain_k, the j-th with   *)
(* the j-th strain in its POSCAR and with links to the shared INCAR, POTCAR *)
StrainDirsMade(calc_dir, values) ==
    LET k == Len(values) \div 2 IN
    /\ DOMAIN calc_dir = {strain_name(j) : j \in (0 - k)..k}
    /\ \A j \in (0 - k)..k :
          /\ calc_dir[strain_name(j)].POSCAR.scale = values[j + k + 1]
          /\ \A f \in {"INCAR", "POTCAR"} :
                /\ calc_dir[strain_name(j)][f].kind = "symlink"
                /\ calc_dir[strain_name(j)][f].of = IF f = "INCAR" THEN "../INCAR" ELSE "../POTCAR"

(* C29 as stated: every odd-length list with middle element 1.0 is taken    *)
(* and gets its strain directories                                          *)
C29_AsStated ==
    (lastOp.op = "strains" /\ OddCentred(lastOp.arg)) => lastOp.ret

(* C29: an odd-length strain list of 2k+1 values, all within [0.8, 1.2] and *)
(* with middle element 1.0, is taken, and setup makes exactly the           *)
(* sub-directories strain_-k .. strain_k, one per strain in list order,     *)
(* each with INCAR and POTCAR as symbolic links to the files of the stage   *)
(* directory; an odd-length list whose middle element is not 1.0, or with a *)
(* value outside [0.8, 1.2], is rejected.                                   *)
C29_StrainDirs ==
    /\ (lastOp.op = "strains" /\ Len(lastOp.arg) % 2 = 1) =>
          (lastOp.ret <=> (OddCentred(lastOp.arg) /\ InBounds(lastOp.arg)))
    /\ (lastOp.op = "_make_bulkmod_strains" /\ Len(lastOp.arg) % 2 = 1) =>
          /\ OddCentred(lastOp.arg) /\ InBounds(lastOp.arg)
          /\ StrainDirsMade(lastOp.val, lastOp.arg)

(* the strains 0.8, 1.0, 1.2 made strain_-1, strain_0 and strain_1 *)
C29_Witness ==
    /\ lastOp.op = "_make_bulkmod_strains"
    /\ lastOp.arg = <<80, 100, 120>>
    /\ DOMAIN lastOp.val = {strain_name(0 - 1), strain_name(0), strain_name(1)}
    /\ lastOp.val[strain_name(1)].POSCAR.scale = 120

(* the rlx-coarse job of m ended without error message and without the      *)
(* convergence marker, with max_reruns - 1 or more archives in its directory *)
AtRetryBound(m) ==
    LET d == dirs[m]["rlx-coarse"] IN
    /\ JobEnded(m, "rlx-coarse")
    /\ HasStdout(d)
    /\ _check_vasp_errors(Outcome(d.out), {}) = {}
    /\ "reached required accuracy" \notin Outcome(d.out).out
    /\ Cardinality(DOMAIN d.archives) >= config.max_reruns - 1

C30_Step ==
    \A m \in Range(material_names) :
        (/\ lastOp'.op = "pass"
         /\ AtRetryBound(m)
         /\ Calls(trace', {"check"}, m, "rlx-coarse") # {}) =>
            /\ Calls(trace', {"done"}, m, "rlx-coarse") # {}
            /\ Calls(trace', SetupEvents, m, "rlx-coarse") = {}
            /\ dirs'[m]["rlx-coarse"] = dirs[m]["rlx-coarse"]
            /\ LiveJobs(queue', m, "rlx-coarse") = {}
            /\ "rlx" \in Range(config.types) =>
                  \E i \in Calls(trace', {"done"}, m, "rlx-coarse") :
                      \E j \in Calls(trace', {"visit"}, m, "rlx") : j > i

(* C30: when the rlx-coarse job is complete, its log holds no error message *)
(* and no "reached required accuracy", and max_reruns - 1 or more archives  *)
(* exist, check_calc reports the stage done: the run goes on to rlx, makes  *)
(* no new archive and submits no rlx-coarse job.                            *)
C30_CoarseAtRetryBound == [][C30_Step]_vars

(* an unconverged rlx-coarse with its archive_0 kept, passed as done in the *)
(* run that set up rlx from it                                              *)
C30_Witness ==
    /\ AfterPass
    /\ AtRetryBound("m1")
    /\ DOMAIN dirs["m1"]["rlx-coarse"].archives # {}
    /\ Calls(trace, {"check"}, "m1", "rlx-coarse") # {}
    /\ Calls(trace, {"done"}, "m1", "rlx-coarse") # {}
    /\ Calls(trace, {"archive"}, "m1", "rlx-coarse") = {}
    /\ Calls(trace, {"create"}, "m1", "rlx") # {}

(* the rlx job of m ended without error message and without the convergence *)
(* marker, with max_reruns - 1 or more archives in its directory            *)
RlxAtRetryBound(m) ==
    LET d == dirs[m]["rlx"] IN
    /\ JobEnded(m, "rlx")
    /\ HasStdout(d)
    /\ _check_vasp_errors(Outcome(d.out), {}) = {}
    /\ "reached required accuracy" \notin Outcome(d.out).out
    /\ Cardinality(DOMAIN d.archives) >= config.max_reruns - 1

C31_Step ==
    \A m \in Range(material_names) :
        (/\ lastOp'.op = "pass"
         /\ RlxAtRetryBound(m)
         /\ Calls(trace', {"check"}, m, "rlx") # {}) =>
            /\ Calls(trace', {"done"}, m, "rlx") = {}
            /\ ~IsDoneEntry(resultsFile'[m]["rlx"])
            /\ Calls(trace', SetupEvents \cup {"stop"}, m, "rlx") = {}
            /\ dirs'[m] = dirs[m]
            /\ stopMarker'[m] = stopMarker[m]
            /\ {j \in queue' : j.m = m} = {j \in queue : j.m = m}
            /\ \A s \in Siblings : Calls(trace', {"visit"} \cup SetupEvents, m, s) = {}
            /\ RlxAtRetryBound(m)'

(* C31: when the rlx job is complete, its log holds no error message and no *)
(* "reached required accuracy", and max_reruns - 1 or more archives exist,  *)
(* check_calc reports not done without archive, job or STOP marker; the     *)
(* run leaves the material as it was and sets up none of static, bulkmod    *)
(* and elastic, so every later run that checks rlx finds the same.          *)
C31_RlxAtRetryBound == [][C31_Step]_vars

(* a run refused to go on from the unconverged rlx with its archive_0, and  *)
(* static was not set up                                                    *)
C31_Witness ==
    /\ AfterPass
    /\ Calls(trace, {"visit"}, "m1", "static") = {}
    /\ RlxAtRetryBound("m1")
    /\ Calls(trace, {"check"}, "m1", "rlx") # {}
    /\ ~stopMarker["m1"]
    /\ ~dirs["m1"]["static"].exists
    /\ "static" \in Range(config.types)

(* what the i-th strain sub-directory of the bulkmod stage of m shows *)
StrainState(m, i) ==
    LET log == StrainLog(dirs[m]["bulkmod"].out, i) IN
    IF ~log.stdout THEN "nostdout"
    ELSE IF _check_vasp_errors(log, {"NELM"}) # {} THEN "errors"
    ELSE IF "1 F=" \notin log.out THEN "nomarker"
    ELSE "ok"

(* the first strain, in list order, that did not succeed; 0 if all did *)
FirstFailing(m) ==
    IF \A i \in 1..NStrains : StrainState(m, i) = "ok" THEN 0
    ELSE CHOOSE i \in 1..NStrains :
             /\ StrainState(m, i) # "ok"
             /\ \A k \in 1..(i - 1) : StrainState(m, k) = "ok"

(* the run of the script checks the ended bulkmod job of m *)
BulkmodChecked(m) ==
    /\ lastOp'.op = "pass"
    /\ JobEnded(m, "bulkmod")
    /\ dirs[m]["bulkmod"].out # "none"
    /\ Calls(trace', {"check"}, m, "bulkmod") # {}

BulkmodRetried(m) ==
    /\ Calls(trace', {"wipe"}, m, "bulkmod") # {}
    /\ Calls(trace', {"create"}, m, "bulkmod") # {}
    /\ Calls(trace', {"submit"}, m, "bulkmod") # {}
    /\ dirs'[m]["bulkmod"].jobid = nextJobId
    /\ dirs'[m]["bulkmod"].out = "none"

C32_AsStatedStep ==
    \A m \in Range(material_names) :
        BulkmodChecked(m) =>
            /\ (\E i \in 1..NStrains : StrainState(m, i) = "nostdout") =>
                  Calls(trace', SetupEvents, m, "bulkmod") = {}
            /\ (\E i \in 1..NStrains : StrainState(m, i) = "nomarker") =>
                  BulkmodRetried(m)

(* C32 as stated: a missing stdout in any sub-directory means no retry, a   *)
(* missing marker in any sub-directory means a retry of the stage           *)
C32_AsStated == [][C32_AsStatedStep]_vars

C32_Step ==
    \A m \in Range(material_names) :
        LET d == dirs[m]["bulkmod"]
            first == FirstFailing(m) IN
        BulkmodChecked(m) =>
            /\ Calls(trace', {"done"}, m, "bulkmod") # {} <=> first = 0
            /\ resultsFile'[m]["bulkmod"].tag = "bulkmod" => first = 0
            /\ first = 0 => (resultsFile'[m]["bulkmod"].tag = "bulkmod" /\ dirs'[m]["bulkmod"] = d)
            /\ (first # 0 /\ StrainState(m, first) = "nostdout") =>
                  (Calls(trace', SetupEvents, m, "bulkmod") = {} /\ dirs'[m]["bulkmod"] = d)
            /\ (first # 0 /\ StrainState(m, first) = "nomarker") =>
                  IF config.to_rerun
                  THEN BulkmodRetried(m) /\ dirs'[m]["bulkmod"].nodes = 2
                  ELSE Calls(trace', SetupEvents, m, "bulkmod") = {} /\ dirs'[m]["bulkmod"] = d

(* C32: bulkmod is reported done only if every strain sub-directory has a   *)
(* stdout, no error message and the "1 F=" marker, and only then is the     *)
(* equation-of-state fit recorded.  The first sub-directory, in strain      *)
(* order, that does not succeed decides: a missing stdout there gives not   *)
(* done without retry; a missing marker there gives not done and, with      *)
(* to_rerun, a rerun of the whole stage from scratch on twice the nodes.    *)
C32_FirstFailingStrainDecides == [][C32_Step]_vars

(* the job ended in the SCF cycle of the first strain: the later strains    *)
(* have no stdout, and the stage was rerun from scratch                     *)
C32_Witness ==
    /\ AfterPass
    /\ Calls(trace, {"check"}, "m1", "bulkmod") # {}
    /\ Calls(trace, {"wipe"}, "m1", "bulkmod") # {}
    /\ Calls(trace, {"submit"}, "m1", "bulkmod") # {}
    /\ dirs["m1"]["bulkmod"].nodes = 2
    /\ config.to_rerun

(* is_done was evaluated on a manager of stage s of m *)
CheckedDirectly == lastOp'.op \in {"results", "results_raised"}

(* the log of the ended job holds error messages, all of which              *)
(* _address_vasp_errors can address                                         *)
AddressableErrors(m, s) ==
    LET d == dirs[m][s]
        errors == _check_vasp_errors(Outcome(d.out),
                                     IF s \in {"rlx-coarse", "rlx"} THEN {} ELSE {"NELM"}) IN
    /\ s # "bulkmod"
    /\ JobEnded(m, s)
    /\ HasStdout(d)
    /\ errors # {}
    /\ _address_vasp_errors(World, m, s, errors).ret
    /\ ~stopMarker[m]

C33_AsStatedStep ==
    (CheckedDirectly /\ AddressableErrors(lastOp'.m, lastOp'.s)) =>
        (lastOp'.op = "results" /\ lastOp'.val.tag = "not finished")

C33_Step ==
    CheckedDirectly =>
        LET m == lastOp'.m
            s == lastOp'.s IN
        /\ dirs' = dirs
        /\ queue' = queue
        /\ nextJobId' = nextJobId
        /\ \A i \in 1..Len(trace') : trace'[i].ev \notin SetupEvents
        /\ \A a \in Materials : stopMarker[a] => stopMarker'[a]
        /\ \A a \in Materials \ {m} : stopMarker'[a] = stopMarker[a]
        /\ AddressableErrors(m, s) =>
              /\ lastOp'.op = "results"
              /\ ~lastOp'.ret
              /\ ~stopMarker'[m]
              /\ lastOp'.val.tag = IF s = "rlx-coarse" THEN "not finished" ELSE "null"

SpinBelowCutoff(m) ==
    LET d == dirs[m]["rlx"]
        log == Outcome(d.out) IN
    /\ lastOp'.op = "pass"
    /\ JobEnded(m, "rlx")
    /\ HasStdout(d)
    /\ _check_vasp_errors(log, {}) = {}
    /\ "reached required accuracy" \in log.out
    /\ "mag=" \in log.out
    /\ Abs(log.mag) < config.cutoff
    /\ config.to_rerun
    /\ Calls(trace', {"check"}, m, "rlx") # {}

C34_Step ==
    \A m \in Range(material_names) :
        SpinBelowCutoff(m) =>
            /\ Calls(trace', {"done"}, m, "rlx") = {}
            /\ Calls(trace', {"archive"}, m, "rlx") # {}
            /\ Calls(trace', {"submit"}, m, "rlx") # {}
            /\ dirs'[m]["rlx"].ispin = 1
            /\ DOMAIN dirs[m]["rlx"].archives = {}

(* C34: an rlx run that converges with a magnetic moment per atom below the *)
(* cutoff is, with to_rerun, not reported done but archived and resubmitted *)
(* without spin, and this happens once: no resubmission without spin has    *)
(* been made for the stage before.                                          *)
C34_AsStated == [][C34_Step]_vars

C35_Step ==
    \A m \in Range(material_names), s \in Relax :
        \A i \in Calls(trace', {"archive"}, m, s) :
            LET k == trace'[i].n
                old == dirs[m][s]
                new == dirs'[m][s] IN
            lastOp'.op = "pass" =>
                /\ k \notin DOMAIN old.archives
                /\ DOMAIN new.archives = DOMAIN old.archives \cup {k}
                /\ \A a \in DOMAIN old.archives : new.archives[a] = old.archives[a]
                /\ new.archives[k] = Snapshot(old)
                /\ \E j \in Calls(trace', {"create"}, m, s) : j > i
                /\ \A j \in Calls(trace', {"create"}, m, s) : j > i
                /\ Readable(old.contcar)
                /\ new.poscar = old.contcar
                /\ new.poscar # OrigStruct
                /\ new.poscar # poscar_source_path(World, config, m, s)
                /\ \A a \in DOMAIN old.archives : new.poscar # old.archives[a].contcar
                /\ new.contcar = NoFile /\ new.out = "none"

(* C35: a rerun that makes archive_k first moves the files of the old       *)
(* attempt into archive_k and only then writes new input files; the new     *)
(* POSCAR is the CONTCAR of the attempt just archived, not the stage's      *)
(* source structure and not the CONTCAR of an older archive.                *)
C35_RestartFromArchivedContcar == [][C35_Step]_vars

(* the second rerun of rlx-coarse: archive_1 holds the second attempt, and  *)
(* the third attempt starts from its CONTCAR and not from that of archive_0 *)
C35_Witness ==
    /\ AfterPass
    /\ \E i \in Calls(trace, {"archive"}, "m1", "rlx-coarse") : trace[i].n = 1
    /\ DOMAIN dirs["m1"]["rlx-coarse"].archives = {0, 1}
    /\ dirs["m1"]["rlx-coarse"].poscar = dirs["m1"]["rlx-coarse"].archives[1].contcar
    /\ dirs["m1"]["rlx-coarse"].poscar # dirs["m1"]["rlx-coarse"].archives[0].contcar

(* check_calc of stage s of m called setup_calc in the run just made: a     *)
(* retry of the stage                                                       *)
RetriedInPass(m, s) ==
    /\ lastOp'.op = "pass"
    /\ \E i \in Calls(trace', {"check"}, m, s) :
          \E j \in Calls(trace', {"setup"}, m, s) : j > i

C36_Step ==
    \A m \in Range(material_names), s \in Stages :
        (/\ RetriedInPass(m, s)
         /\ ~ContainsPersonal(computer)
         /\ config.to_submit
         /\ lastOp'.ret) =>
            /\ dirs[m][s].jobid # NoFile
            /\ \E i \in Calls(trace', {"submit"}, m, s) :
                  /\ trace'[i].n = dirs'[m][s].jobid
                  /\ \E j \in Calls(trace', {"archive", "wipe", "cancel", "setup"}, m, s) : j < i
            /\ dirs'[m][s].jobid # dirs[m][s].jobid
            /\ dirs'[m][s].jobid >= nextJobId
            /\ LiveJobs(queue', m, s) = {[id |-> dirs'[m][s].jobid, m |-> m, s |-> s]}

(* C36: on a cluster with to_submit, every retry made by check_calc         *)
(* (archive and resubmit, the clean-up after an empty CONTCAR, the rerun    *)
(* from scratch, the no-stdout rerun of rlx-coarse and rlx) takes the old   *)
(* jobid file out of the stage directory before submit_job, so the retry    *)
(* submits a new job and the directory holds the new job id.                *)
C36_RetrySubmitsNewJob == [][C36_Step]_vars

(* rlx-coarse ended with an empty CONTCAR: the files were cleaned up with   *)
(* no archive made, and a new job was submitted                             *)
C36_Witness ==
    /\ AfterPass
    /\ \E i \in Calls(trace, {"check"}, "m1", "rlx-coarse") :
          \E j \in Calls(trace, {"submit"}, "m1", "rlx-coarse") : j > i
    /\ Calls(trace, {"archive", "wipe", "cancel"}, "m1", "rlx-coarse") = {}
    /\ dirs["m1"]["rlx-coarse"].jobid = 2
    /\ LiveJobs(queue, "m1", "rlx-coarse") # {}

(* the orchestrator called setup_calc for stage s of m in the run just made *)
OrchSetupAt(m, s) == Calls(trace', {"orch_setup"}, m, s)

C37_AsStatedStep ==
    \A m \in Range(material_names), s \in Stages :
        (lastOp'.op = "pass" /\ OrchSetupAt(m, s) # {}) =>
            Calls(trace', {"check"}, m, s) = {}

C37_Step ==
    \A m \in Range(material_names), s \in Stages :
        lastOp'.op = "pass" =>
            /\ Cardinality(Calls(trace', {"submit"}, m, s)) <= 1
            /\ \A i \in OrchSetupAt(m, s) :
                  /\ s \in Relax => Calls(trace', {"check"}, m, s) = {}
                  /\ (s \notin Relax /\ lastOp'.ret) =>
                        \E j \in Calls(trace', {"check"}, m, s) : j > i
                  /\ \A j \in Calls(trace', {"cancel", "wipe", "archive"}, m, s) : j < i
                  /\ \A j \in Calls(trace', {"submit"}, m, s) :
                        /\ j > i
                        /\ dirs'[m][s].jobid = trace'[j].n
                        /\ \E q \in queue' : q.id = trace'[j].n

SkippedAsPersonal ==
    /\ lastOp.op = "submit_job"
    /\ lastOp.ret
    /\ lastOp.before \in {NoFile, EmptyFile}
    /\ dirs[lastOp.m][lastOp.s].jobid = lastOp.before

(* _check_job_complete asks the scheduler: a job that is listed is reported *)
(* as not complete                                                          *)
PolledFromQueue(m, s) ==
    ~_check_job_complete([World EXCEPT !.dirs[m][s].jobid = nextJobId,
                                       !.queue = {[id |-> nextJobId, m |-> m, s |-> s]}],
                         m, s)

(* C38: whenever submit_job is skipped as on a personal computer, job       *)
(* completion is reported without asking the scheduler.                     *)
C38_AsStated ==
    SkippedAsPersonal => ~PolledFromQueue(lastOp.m, lastOp.s)

(* a list names no material twice *)
NoRepeat(l) == \A i, j \in 1..Len(l) : l[i] = l[j] => i = j

(* C39: in the dict summary(as_string=False) returns, for every calculation *)
(* type, each material of the results file is in exactly one of the lists   *)
(* 'finished' and 'unfinished', n_finished is the length of 'finished',     *)
(* n_finished + len(unfinished) is n_total, and every material of 'stopped' *)
(* is in 'unfinished'.                                                      *)
C39_SummaryCounts ==
    (lastOp.op = "summary_dict" /\ lastOp.ret) =>
        \A s \in Range(calculation_types(config.types)) :
            LET l == lastOp.val.by[s] IN
            /\ \A m \in Range(material_names) :
                   (m \in Range(l.finished)) # (m \in Range(l.unfinished))
            /\ NoRepeat(l.finished) /\ NoRepeat(l.unfinished)
            /\ Range(l.finished) \cup Range(l.unfinished) = Range(material_names)
            /\ l.n_finished = Len(l.finished)
            /\ l.n_finished + Len(l.unfinished) = lastOp.val.n_total
            /\ Range(l.stopped) \subseteq Range(l.unfinished)

(* a summary with one material finished and the other stopped *)
C39_Witness ==
    /\ lastOp.op = "summary_dict" /\ lastOp.ret
    /\ \E s \in Range(calculation_types(config.types)) :
          LET l == lastOp.val.by[s] IN
          /\ Len(l.finished) = 1
          /\ Len(l.stopped) = 1
          /\ Len(l.unfinished) = 1

(* Repeated runs of the script on a cluster with to_rerun and to_submit,    *)
(* where every job ends with a log that holds no error message and passes  *)
(* the acceptance check of its stage.                                       *)
LiveConfigs ==
    { Cfg(types, TRUE, TRUE, 0, {}) :
        types \in {AllTypes, Reversed, <<"elastic", "rlx", "static">>,
                   <<"rlx-coarse", "rlx">>, <<"rlx", "bulkmod">>, <<"static">>} }

InitLive == InitWith({"quest"}, LiveConfigs)

ErrorFree(s, o) ==
    IF s = "bulkmod"
    THEN \A i \in 1..NStrains :
            /\ StrainLog(o, i).stdout
            /\ _check_vasp_errors(StrainLog(o, i), {"NELM"}) = {}
    ELSE /\ Outcome(o).stdout
         /\ _check_vasp_errors(Outcome(o),
                               IF s \in Relax THEN {} ELSE {"NELM"}) = {}

GoodFinish ==
    \E j \in queue, o \in AllOutcomes \cup VolumeEdge \cup SpinEdge :
        /\ ErrorFree(j.s, o)
        /\ JobFinishes(j, o)
        /\ Accepted(j.m, j.s)'

NextLive ==
    \/ Pass
    \/ GoodFinish

(* one more run of the script would leave every variable as it is, or      *)
(* would take a job number beyond MaxJobs: no Pass step is enabled          *)
PassQuiet ==
    \A w \in {run_calculations(config)} :
        \/ w.nextId > MaxJobs + 1
        \/ /\ dirs = w.dirs
           /\ stopMarker = w.stop
           /\ queue = w.queue
           /\ nextJobId = w.nextId
           /\ resultsFile = (IF w.raised THEN resultsFile ELSE w.store)
           /\ resultsExists = (resultsExists \/ ~w.raised)
           /\ trace = w.trace
           /\ lastOp = Op("pass", "", "", ~w.raised, FALSE, 0)

(* the user goes on running the script while a run changes anything (weak  *)
(* fairness of Pass, its enabling condition written as PassQuiet), and the  *)
(* scheduler goes on ending the jobs of the queue                           *)
Repeated == []<>PassQuiet \/ []<><<Pass>>_vars

SpecLive == InitLive /\ [][NextLive]_vars /\ Repeated /\ WF_vars(GoodFinish)

AllRecorded ==
    /\ resultsExists
    /\ \A m \in Range(material_names), s \in Range(config.types) :
          IsDoneEntry(resultsFile[m][s])

====
